---- MODULE Spec2Model ----
(***************************************************************************)
(* libhcs: Paillier (pcs), threshold Paillier (pcs_t) and the numeric      *)
(* helpers of com/util.c, modelled over small moduli.                      *)
(*                                                                         *)
(* mpz_t values are unbounded integers in the library.  Every value the    *)
(* model computes stays below 2^31; products taken under a modulus go      *)
(* through MulMod, which never forms an intermediate above 2 * modulus.    *)
(***************************************************************************)
EXTENDS Integers, Sequences, FiniteSets, Bags, TLC

VARIABLES
    pk,     \* pcs_public_key: n, g, n2 (all 0 before key generation)
    vk,     \* pcs_private_key: p, q, p2, q2, lambda, mu, hp, hq, n, n2
    ct,     \* the caller's ciphertext variables (a bag); pt and hist are ghost fields:
            \* the integer the operations so far should encrypt, and which
            \* operations built the value
    rop,    \* output of pcs_decrypt when it was the last call (with the ghost
            \* fields of its input); cleared by every other call
    nops,   \* number of encryptions and in-place operations made so far
    tst,    \* threshold session: "init", "keys" (pcs_t_generate_key_pair
            \* returned 1) or "abort" (the assert of mpz_2crt ended the process)
    tpk,    \* pcs_t_public_key: w, l, n, g, n2, delta
    tvk,    \* pcs_t_private_key: w, l, d, n, n2, nm
    call,   \* ghost record of the key generation call: its arguments w, l,
            \* the safe primes p, q it drew, alive until vk is freed
    px,     \* pcs_t_polynomial: st ("none", "live", "freed"), n, coeff
    au,     \* the pcs_t_auth_server objects dealt so far: i, si
    tc,     \* the ciphertext the servers work on, m its ghost plaintext
    fshr,   \* the shares pcs_t_share_decrypt has written so far
    res,    \* return value and rop of the session's pcs_t_share_combine call,
            \* S the indices of the non-zero entries it was given
    crt,    \* a direct call of mpz_2crt: arguments, state and rop
    ns,     \* a proof session: the pcs_t_proof object pf, the ciphertext u
            \* and its randomness v, the verifier's return value; ghost: the
            \* prover's draws and which field was replaced after proving
    dj,     \* a Damgard-Jurik session: s, the keys, the ghost primes p and q,
            \* the ciphertext c with its ghost plaintext m, the output of
            \* djcs_decrypt
    eg,     \* an ElGamal session: the keys, the two ciphertexts ct1 and ct2 with
            \* their ghost plaintexts, their egcs_ee_mul product and its decryption
    vf,     \* a pcs_verify_key_pair call: the public key of one generated pair,
            \* the private key of another (or the same), the return value
    heap,   \* an object on its way to destruction: its kind, whether its
            \* storage is still live, and the content of each big-integer
            \* attribute
    th,     \* two encrypt calls running at once on one shared public key:
            \* the key as it is now and as generated, and each thread's
            \* position and locals
    al,     \* one call of an encryption or homomorphic operation: the
            \* function, the caller's objects before the call, the object
            \* passed as rop, what the call stored in it, and what it stores
            \* in a separate rop
    rp,     \* a direct call of mpz_random_prime: bitcnt, the value mpz_urandomb
            \* delivered, and rop
    kg,     \* a key generation call: the function, the requested bits, the keys it
            \* left, and the return values of the two verify calls made on them
    ent,    \* an operation that seeds a generator: the function, what the entropy
            \* device does, what the caller is told, and the value handed to
            \* gmp_randseed
    lc,     \* the life of one threshold private key: the calls made on it, what
            \* vk->vi points to, and every vi array allocated with its releases
    lg,     \* one computation of a Lagrange coefficient in pcs_t_share_combine: l,
            \* the present indices, the share i, the next j, t1 and the remainders
    xp      \* a private key written by pcs_export_private_key and read back by
            \* pcs_import_private_key, and one ciphertext decrypted with both keys

pcsVars == <<pk, vk, ct, rop, nops>>
tVars == <<tst, tpk, tvk, call, px, au, tc, fshr, res>>
crtVars == <<crt>>
pVars == <<ns>>
djVars == <<dj>>
egVars == <<eg>>
vfVars == <<vf>>
heapVars == <<heap>>
thVars == <<th>>
alVars == <<al>>
rpVars == <<rp>>
kgVars == <<kg>>
entVars == <<ent>>
lcVars == <<lc>>
lgVars == <<lg>>
xpVars == <<xp>>
vars == <<pcsVars, tVars, crtVars, pVars, djVars, egVars, vfVars, heapVars, thVars, alVars, rpVars, kgVars, entVars, lcVars, lgVars, xpVars>>
\* what a Paillier call, a threshold call and a direct mpz_2crt call leave alone
nonPcs == <<tVars, crtVars, pVars, djVars, egVars, vfVars, heapVars, thVars, alVars, rpVars, kgVars, entVars, lcVars, lgVars, xpVars>>
nonT == <<pcsVars, crtVars, pVars, djVars, egVars, vfVars, heapVars, thVars, alVars, rpVars, kgVars, entVars, lcVars, lgVars, xpVars>>
nonCrt == <<pcsVars, tVars, pVars, djVars, egVars, vfVars, heapVars, thVars, alVars, rpVars, kgVars, entVars, lcVars, lgVars, xpVars>>
\* what a proof call leaves alone besides the public key it reads
nonP == <<pcsVars, tVars, crtVars, djVars, egVars, vfVars, heapVars, thVars, alVars, rpVars, kgVars, entVars, lcVars, lgVars, xpVars>>
\* what a Damgard-Jurik call leaves alone
nonDj == <<pcsVars, tVars, crtVars, pVars, egVars, vfVars, heapVars, thVars, alVars, rpVars, kgVars, entVars, lcVars, lgVars, xpVars>>
\* what an ElGamal call leaves alone
nonEg == <<pcsVars, tVars, crtVars, pVars, djVars, vfVars, heapVars, thVars, alVars, rpVars, kgVars, entVars, lcVars, lgVars, xpVars>>
\* what a key verification leaves alone
nonVf == <<pcsVars, tVars, crtVars, pVars, djVars, egVars, heapVars, thVars, alVars, rpVars, kgVars, entVars, lcVars, lgVars, xpVars>>
\* what a free call leaves alone
nonHeap == <<pcsVars, tVars, crtVars, pVars, djVars, egVars, vfVars, thVars, alVars, rpVars, kgVars, entVars, lcVars, lgVars, xpVars>>
\* what a step of a concurrent encrypt call leaves alone
nonTh == <<pcsVars, tVars, crtVars, pVars, djVars, egVars, vfVars, heapVars, alVars, rpVars, kgVars, entVars, lcVars, lgVars, xpVars>>
\* what such a call leaves alone
nonAl == <<pcsVars, tVars, crtVars, pVars, djVars, egVars, vfVars, heapVars, thVars, rpVars, kgVars, entVars, lcVars, lgVars, xpVars>>
\* what a call of mpz_random_prime leaves alone
nonRp == <<pcsVars, tVars, crtVars, pVars, djVars, egVars, vfVars, heapVars, thVars, alVars, kgVars, entVars, lcVars, lgVars, xpVars>>
\* what a key generation call and the verify calls after it leave alone
nonKg == <<pcsVars, tVars, crtVars, pVars, djVars, egVars, vfVars, heapVars, thVars, alVars, rpVars, entVars, lcVars, lgVars, xpVars>>
\* what a seeding operation leaves alone
nonEnt == <<pcsVars, tVars, crtVars, pVars, djVars, egVars, vfVars, heapVars, thVars, alVars, rpVars, kgVars, lcVars, lgVars, xpVars>>
\* what the life of a threshold private key leaves alone
nonLc == <<pcsVars, tVars, crtVars, pVars, djVars, egVars, vfVars, heapVars, thVars, alVars, rpVars, kgVars, entVars, lgVars, xpVars>>
\* what the Lagrange computation leaves alone
nonLg == <<pcsVars, tVars, crtVars, pVars, djVars, egVars, vfVars, heapVars, thVars, alVars, rpVars, kgVars, entVars, lcVars, xpVars>>
\* what export and import leave alone
nonXp == <<pcsVars, tVars, crtVars, pVars, djVars, egVars, vfVars, heapVars, thVars, alVars, rpVars, kgVars, entVars, lcVars, lgVars>>

(***************************************************************************)
(* Bounds of the model.                                                    *)
(***************************************************************************)
\* largest `bits` argument handed to a key generator
MaxBits == 4
\* plaintext samples: the residues within MaxPlain of 0 or of n
MaxPlain == 1
\* samples of mpz_urandomm(., ., n): 0..MaxRand and n-1
MaxRand == 1
\* encryptions and in-place operations (reencrypt, ep_add, ep_mul) a
\* session makes
MaxOps == 3
\* largest plaintext operand of pcs_ep_add (and -MaxAdd the smallest)
MaxAdd == 2
\* largest number of decryption servers l (and of the quorum argument w)
MaxL == 5
\* largest modulus handed to mpz_2crt directly; residues range over
\* -MaxMod .. 2 * MaxMod
MaxMod == 6
\* largest bit size of a key shared between two threads
MaxSharedBits == 1
\* largest bitcnt handed to mpz_random_prime directly
MaxPrimeBits == 6
\* largest modulus size asked of key generation in a call followed by the
\* verify calls
MaxKeyBits == 6
\* largest number of servers l of a Lagrange computation at full width
MaxLagrange == 10

\* the number base of exported keys
HCS_BASE == 62

(***************************************************************************)
(* GMP primitives the library calls (arbitrary-precision integers).        *)
(***************************************************************************)
Abs(x) == IF x < 0 THEN -x ELSE x

\* mpz_tdiv_q: quotient truncated towards zero
mpz_tdiv_q(a, b) == IF a >= 0 THEN a \div b ELSE -((-a) \div b)

\* mpz_mod: the non-negative residue
mpz_mod(a, m) == a % m

RECURSIVE MulModSlow(_, _, _)
MulModSlow(a, b, m) ==
    IF b = 0 THEN 0
    ELSE LET h == MulModSlow(a, b \div 2, m)
             d == (h + h) % m
         IN  IF b % 2 = 1 THEN (d + a) % m ELSE d

\* mpz_mul followed by mpz_mod, for 0 <= a, b < m
MulMod(a, b, m) ==
    IF a < 46341 /\ b < 46341 THEN (a * b) % m ELSE MulModSlow(a, b, m)

RECURSIVE mpz_gcd(_, _)
mpz_gcd(a, b) == IF b = 0 THEN Abs(a) ELSE mpz_gcd(b, a % Abs(b))

RECURSIVE ExtGcd(_, _)
\* <<g, x, y>> with a*x + b*y = g, for a, b >= 0
ExtGcd(a, b) ==
    IF b = 0 THEN <<a, 1, 0>>
    ELSE LET r == ExtGcd(b, a % b)
         IN  <<r[1], r[3], r[2] - (a \div b) * r[3]>>

\* mpz_invert(rop, a, m): ok = the return value (non-zero iff the inverse
\* exists); val = rop, in 0..m-1 (meaningful only when ok)
mpz_invert(a, m) ==
    LET r == ExtGcd(a % m, m)
    IN  [ok |-> r[1] = 1, val |-> IF r[1] = 1 THEN r[2] % m ELSE 0]

RECURSIVE PowModNat(_, _, _)
PowModNat(b, e, m) ==
    IF e = 0 THEN 1 % m
    ELSE LET h == PowModNat(b, e \div 2, m)
             s == MulMod(h, h, m)
         IN  IF e % 2 = 1 THEN MulMod(s, b, m) ELSE s

\* mpz_powm(rop, b, e, m); a negative e takes the inverse of b first (the
\* callers of the model only do so for invertible b)
mpz_powm(b, e, m) ==
    IF e >= 0 THEN PowModNat(b % m, e, m)
    ELSE PowModNat(mpz_invert(b, m).val, -e, m)

RECURSIVE mpz_pow_ui(_, _)
mpz_pow_ui(b, e) == IF e = 0 THEN 1 ELSE b * mpz_pow_ui(b, e - 1)

RECURSIVE mpz_fac_ui(_)
mpz_fac_ui(k) == IF k = 0 THEN 1 ELSE k * mpz_fac_ui(k - 1)

mpz_lcm(a, b) == (a * b) \div mpz_gcd(a, b)

\* mpz_probab_prime_p(x, 25) # 0; exact for the small operands of the model
IsPrime(x) == x >= 2 /\ \A k \in 2..(x - 1) : k * k > x \/ x % k # 0

RECURSIVE mpz_nextprime(_)
\* the smallest prime greater than x
mpz_nextprime(x) == IF IsPrime(x + 1) THEN x + 1 ELSE mpz_nextprime(x + 1)

(***************************************************************************)
(* com/util.c                                                              *)
(***************************************************************************)
\* mpz_urandomb(rop, rstate, bitcnt): any value of 0 .. 2^bitcnt - 1
UrandombRange(bitcnt) == 0..(mpz_pow_ui(2, bitcnt) - 1)

\* mpz_random_prime without the mpz_setbit
mpz_random_prime_NoSetbit(draw, bitcnt) == mpz_nextprime(draw)

\* mpz_random_prime: draw is the value mpz_urandomb returned; mpz_setbit
\* adds 2^bitcnt to it
mpz_random_prime(draw, bitcnt) ==
    mpz_nextprime(draw + mpz_pow_ui(2, bitcnt))

\* mpz_random_safe_prime leaves its loop with rop1 = 2*rop2 + 1, rop2 prime
SafePrimeAccepted(rop1) == IsPrime((rop1 - 1) \div 2)

\* mpz_urandomm(rop, rstate, n): the sampled values of 0..n-1
UrandommSamples(n) == {x \in 0..(n - 1) : x <= MaxRand \/ x = n - 1}

\* the values mpz_random_in_mult_group / the do-while of pcs_encrypt accept
MultGroupSamples(n) == {x \in UrandommSamples(n) : mpz_gcd(x, n) = 1}

\* the assert of mpz_2crt
Crt2AssertHolds(con1_m, con2_m) == mpz_gcd(con1_m, con2_m) = 1

\* mpz_2crt without the final reduction modulo con1_m * con2_m
mpz_2crt_NoMod(con1_a, con1_m, con2_a, con2_m) ==
    mpz_invert(con2_m, con1_m).val * con2_m * con1_a
        + mpz_invert(con1_m, con2_m).val * con1_m * con2_a

\* mpz_2crt(rop, con1_a, con1_m, con2_a, con2_m), rop distinct from the inputs
mpz_2crt(con1_a, con1_m, con2_a, con2_m) ==
    LET r1 == mpz_invert(con2_m, con1_m).val
        r2 == r1 * con2_m
        r3 == r2 * con1_a
        t1 == mpz_invert(con1_m, con2_m).val
        t2 == t1 * con1_m
        t3 == t2 * con2_a
        r4 == r3 + t3
        t4 == con1_m * con2_m
    IN  mpz_mod(r4, t4)

(***************************************************************************)
(* pcs.c: the Paillier cryptosystem                                        *)
(***************************************************************************)
NoPublicKey == [n |-> 0, g |-> 0, n2 |-> 0]
NoPrivateKey == [p |-> 0, q |-> 0, p2 |-> 0, q2 |-> 0, lambda |-> 0, mu |-> 0,
                 hp |-> 0, hq |-> 0, n |-> 0, n2 |-> 0]
NoResult == [set |-> FALSE, val |-> 0, pt |-> 0, hist |-> {}]

\* bit count pcs_generate_key_pair and pcs_t_generate_key_pair request of
\* the prime generator
PrimeBits(bits) == 1 + (bits - 1) \div 2

\* the precomputation of hp (and hq): L_p(g^(p-1) mod p^2)^-1 mod p
pcs_h(g, p, p2) ==
    LET h1 == p - 1
        h2 == mpz_powm(g, h1, p2)
        h3 == h2 - 1
        h4 == mpz_tdiv_q(h3, p)
    IN  mpz_invert(h4, p).val

\* pcs_generate_key_pair that stores lambda in mu without inverting it
pcs_generate_key_pair_NoInvert(p, q, undef) ==
    LET n == p * q
        g == n + 1
        lambda == mpz_lcm(p - 1, q - 1)
    IN  [pk |-> [n |-> n, g |-> g, n2 |-> mpz_pow_ui(n, 2)],
         vk |-> [p |-> p, q |-> q, p2 |-> mpz_pow_ui(p, 2),
                 q2 |-> mpz_pow_ui(q, 2), lambda |-> lambda, mu |-> lambda,
                 hp |-> pcs_h(g, p, mpz_pow_ui(p, 2)),
                 hq |-> pcs_h(g, q, mpz_pow_ui(q, 2)),
                 n |-> n, n2 |-> mpz_pow_ui(n, 2)]]

\* pcs_generate_key_pair (g = n + 1) once the loop has left with primes
\* p # q; undef is the value mpz_invert leaves in mu when lambda has no
\* inverse modulo n
pcs_generate_key_pair(p, q, undef) ==
    LET p2 == mpz_pow_ui(p, 2)
        q2 == mpz_pow_ui(q, 2)
        n == p * q
        lambda == mpz_lcm(p - 1, q - 1)
        n2 == mpz_pow_ui(n, 2)
        inv == mpz_invert(lambda, n)
        g == n + 1
    IN  [pk |-> [n |-> n, g |-> g, n2 |-> n2],
         vk |-> [p |-> p, q |-> q, p2 |-> p2, q2 |-> q2, lambda |-> lambda,
                 mu |-> IF inv.ok THEN inv.val ELSE undef,
                 hp |-> pcs_h(g, p, p2), hq |-> pcs_h(g, q, q2),
                 n |-> n, n2 |-> n2]]

\* pcs_decrypt_half without the multiplication by hp
pcs_decrypt_half_NoH(cipher1, p, p2, hp) ==
    LET t2 == mpz_powm(cipher1, p - 1, p2)
        t4 == mpz_tdiv_q(t2 - 1, p)
    IN  mpz_mod(t4, p)

\* pcs_ep_add that passes |plain1| to mpz_powm
pcs_ep_add_AbsExponent(k, cipher1, plain1) ==
    MulMod(mpz_powm(k.g, Abs(plain1), k.n2), cipher1 % k.n2, k.n2)

\* pcs_ee_add that adds the ciphertexts instead of multiplying them
pcs_ee_add_Sum(k, cipher1, cipher2) == (cipher1 + cipher2) % k.n2

\* pcs_ep_mul that multiplies the ciphertext by the scalar
pcs_ep_mul_Product(k, cipher1, plain1) == MulMod(cipher1 % k.n2, plain1 % k.n2, k.n2)

\* pcs_encrypt; u is the value the do-while loop accepted (gcd(u, n) = 1)
pcs_encrypt(k, plain1, u) ==
    LET t2 == mpz_powm(u, k.n, k.n2)
        r1 == mpz_powm(k.g, plain1, k.n2)
    IN  MulMod(r1, t2, k.n2)

\* one half of pcs_decrypt: L_p(c^(p-1) mod p^2) * hp mod p
pcs_decrypt_half(cipher1, p, p2, hp) ==
    LET t1 == p - 1
        t2 == mpz_powm(cipher1, t1, p2)
        t3 == t2 - 1
        t4 == mpz_tdiv_q(t3, p)
        t5 == t4 * hp
    IN  mpz_mod(t5, p)

pcs_decrypt(k, cipher1) ==
    LET t1 == pcs_decrypt_half(cipher1, k.p, k.p2, k.hp)
        t2 == pcs_decrypt_half(cipher1, k.q, k.q2, k.hq)
    IN  mpz_mod(mpz_2crt(t1, k.p, t2, k.q), k.n)

\* pcs_reencrypt; u is the value mpz_urandomm returned
pcs_reencrypt(k, op, u) ==
    LET t1 == mpz_powm(u, k.n, k.n2)
    IN  MulMod(op % k.n2, t1, k.n2)

pcs_ep_add(k, cipher1, plain1) ==
    LET t1 == cipher1
        r1 == mpz_powm(k.g, plain1, k.n2)
    IN  MulMod(r1, t1 % k.n2, k.n2)

pcs_ee_add(k, cipher1, cipher2) ==
    MulMod(cipher1 % k.n2, cipher2 % k.n2, k.n2)

pcs_ep_mul(k, cipher1, plain1) == mpz_powm(cipher1, plain1, k.n2)

\* the plaintexts the model encrypts
PlainSamples(n) == {m \in 0..(n - 1) : m <= MaxPlain \/ m >= n - MaxPlain}

Slot(c, pt, hist) == [c |-> c, pt |-> pt, hist |-> hist]

One(s) == SetToBag({s})

InitPcs ==
    /\ pk = NoPublicKey
    /\ vk = NoPrivateKey
    /\ ct = EmptyBag
    /\ rop = NoResult
    /\ nops = 0

\* pcs_generate_key_pair(pk, vk, bits)
GenerateKeyPair ==
    /\ pk.n = 0
    /\ \E bits \in 1..MaxBits :
       \E d1, d2 \in UrandombRange(PrimeBits(bits)) :
       \E undef \in {0, 1} :
          LET p == mpz_random_prime(d1, PrimeBits(bits))
              q == mpz_random_prime(d2, PrimeBits(bits))
              k == pcs_generate_key_pair(p, q, undef)
          IN  /\ p # q
              /\ pk' = k.pk
              /\ vk' = k.vk
    /\ UNCHANGED <<ct, rop, nops, nonPcs>>

EncryptInto(limit) ==
    /\ pk.n # 0
    /\ BagCardinality(ct) < limit
    /\ nops < MaxOps
    /\ \E m \in PlainSamples(pk.n), u \in MultGroupSamples(pk.n) :
          ct' = ct (+) One(Slot(pcs_encrypt(pk, m, u), m, {"enc"}))
    /\ nops' = nops + 1
    /\ rop' = NoResult
    /\ UNCHANGED <<pk, vk, nonPcs>>

\* pcs_encrypt(pk, a, a) into a fresh variable
Encrypt == EncryptInto(MaxOps)

\* the same, in a session that works on a single ciphertext
EncryptFirst == EncryptInto(1)

\* pcs_reencrypt(pk, c, c)
Reencrypt ==
    /\ nops < MaxOps
    /\ \E s \in BagToSet(ct), u \in UrandommSamples(pk.n) :
          ct' = (ct (-) One(s)) (+)
                One(Slot(pcs_reencrypt(pk, s.c, u), s.pt, s.hist \cup {"re"}))
    /\ nops' = nops + 1
    /\ rop' = NoResult
    /\ UNCHANGED <<pk, vk, nonPcs>>

\* pcs_ep_add(pk, c, c, k)
EpAdd ==
    /\ nops < MaxOps
    /\ \E s \in BagToSet(ct), k \in (-MaxAdd)..MaxAdd :
          ct' = (ct (-) One(s)) (+)
                One(Slot(pcs_ep_add(pk, s.c, k), s.pt + k, s.hist \cup {"ep_add"}))
    /\ nops' = nops + 1
    /\ rop' = NoResult
    /\ UNCHANGED <<pk, vk, nonPcs>>

\* pcs_ee_add(pk, c1, c1, c2); c2 is not used again
EeAdd ==
    /\ \E s1 \in BagToSet(ct) :
       \E s2 \in BagToSet(ct (-) One(s1)) :
          ct' = ((ct (-) One(s1)) (-) One(s2)) (+)
                One(Slot(pcs_ee_add(pk, s1.c, s2.c), s1.pt + s2.pt,
                         s1.hist \cup s2.hist \cup {"ee_add"}))
    /\ rop' = NoResult
    /\ UNCHANGED <<pk, vk, nops, nonPcs>>

\* pcs_ep_mul(pk, c, c, k); the ghost product is kept below n^3
EpMul ==
    /\ nops < MaxOps
    /\ \E s \in BagToSet(ct), k \in PlainSamples(pk.n) :
          /\ s.pt < pk.n2
          /\ ct' = (ct (-) One(s)) (+)
                   One(Slot(pcs_ep_mul(pk, s.c, k), s.pt * k, s.hist \cup {"ep_mul"}))
    /\ nops' = nops + 1
    /\ rop' = NoResult
    /\ UNCHANGED <<pk, vk, nonPcs>>

\* pcs_decrypt(vk, b, c)
Decrypt ==
    /\ \E s \in BagToSet(ct) :
          rop' = [set |-> TRUE, val |-> pcs_decrypt(vk, s.c),
                  pt |-> s.pt, hist |-> s.hist]
    /\ UNCHANGED <<pk, vk, ct, nops, nonPcs>>

(***************************************************************************)
(* pcs_t.c: threshold Paillier                                             *)
(***************************************************************************)
NoTPublicKey == [w |-> 0, l |-> 0, n |-> 0, g |-> 0, n2 |-> 0, delta |-> 0]
NoTPrivateKey == [w |-> 0, l |-> 0, d |-> 0, n |-> 0, n2 |-> 0, nm |-> 0]
\* what the session remembers of the key generation call: its arguments w
\* and l, the safe primes it drew, and whether vk is still allocated
NoCall == [alive |-> FALSE, p |-> 0, q |-> 0, w |-> 0, l |-> 0]
NoPolynomial == [st |-> "none", n |-> 0, coeff |-> <<>>]
NoCipher == [set |-> FALSE, c |-> 0, m |-> 0]
NoCombine == [set |-> FALSE, ret |-> 0, rop |-> 0, S |-> {}, loop |-> TRUE]

\* dlog_s: L(x) for s = 1.  mpz_divexact is only defined when n divides
\* op - 1; otherwise its result is unspecified and undef stands for it
dlog_s(n, op, undef) ==
    LET r1 == op - 1
        r2 == IF r1 % n = 0 THEN r1 \div n ELSE undef
    IN  mpz_mod(r2, n)

\* pcs_t_generate_key_pair whose mpz_2crt call swaps the two congruences
pcs_t_generate_key_pair_SwappedCrt(p, pp, q, qq, w, l) ==
    LET n == p * q
        m == pp * qq
    IN  [pk |-> [w |-> w, l |-> l, n |-> n, g |-> n + 1, n2 |-> mpz_pow_ui(n, 2),
                 delta |-> mpz_fac_ui(l)],
         vk |-> [w |-> w, l |-> l, d |-> mpz_2crt(0, n, 1, m), n |-> n,
                 n2 |-> mpz_pow_ui(n, 2), nm |-> n * m]]

\* pcs_t_generate_key_pair from the safe primes t1 = p, t3 = q with
\* t2 = (p-1)/2 and t4 = (q-1)/2, past the assert of mpz_2crt
pcs_t_generate_key_pair(p, pp, q, qq, w, l) ==
    LET n == p * q
        n2 == mpz_pow_ui(n, 2)
        g == n + 1
        t3 == pp * qq
        nm == n * t3
        d == mpz_2crt(1, n, 0, t3)
        delta == mpz_fac_ui(l)
    IN  [pk |-> [w |-> w, l |-> l, n |-> n, g |-> g, n2 |-> n2, delta |-> delta],
         vk |-> [w |-> w, l |-> l, d |-> d, n |-> n, n2 |-> n2, nm |-> nm]]

\* pcs_t_encrypt; u is the value mpz_random_in_mult_group returned
pcs_t_encrypt(k, plain1, u) ==
    LET t1 == mpz_powm(u, k.n, k.n2)
        r1 == mpz_powm(k.g, plain1, k.n2)
    IN  MulMod(r1, t1, k.n2)

\* pcs_t_init_polynomial: coeff[0] = d, the others are the draws of
\* mpz_urandomm(., ., nm); the sampled draw sequences are a, nm-1-a, a, ...
pcs_t_init_polynomial(k, a) ==
    [st |-> "live", n |-> k.w,
     coeff |-> [i \in 1..k.w |-> IF i = 1 THEN k.d
                                 ELSE IF i % 2 = 0 THEN a ELSE k.nm - 1 - a]]

RECURSIVE PolynomialLoop(_, _, _, _, _)
\* the loop of pcs_t_compute_polynomial from index i on (coeff[i] is
\* coeff[i + 1] of the 1-based sequence)
PolynomialLoop(r, i, poly, nm, x) ==
    IF i >= poly.n THEN r
    ELSE LET t1 == mpz_pow_ui(x + 1, i)
             t2 == t1 * poly.coeff[i + 1]
             r2 == r + t2
         IN  PolynomialLoop(mpz_mod(r2, nm), i + 1, poly, nm, x)

\* pcs_t_compute_polynomial(vk, px, rop, x)
pcs_t_compute_polynomial(k, poly, x) ==
    PolynomialLoop(poly.coeff[1], 1, poly, k.nm, x)

\* pcs_t_set_auth_server(au, si, i)
pcs_t_set_auth_server(si, i) == [si |-> si, i |-> i + 1]

\* pcs_t_share_decrypt without the factor delta in the exponent
pcs_t_share_decrypt_NoDelta(k, server, cipher1) ==
    mpz_powm(cipher1, server.si * 2, k.n2)

\* pcs_t_share_decrypt(pk, au, rop, cipher1)
pcs_t_share_decrypt(k, server, cipher1) ==
    LET t1 == server.si * k.delta
        t2 == t1 * 2
    IN  mpz_powm(cipher1, t2, k.n2)

RECURSIVE LagrangeLoop(_, _, _, _, _)
\* the inner loop of pcs_t_share_combine from j on, for share i; c is the
\* share array (c[j] of the code is c[j + 1] here)
LagrangeLoop(t1, i, j, c, l) ==
    IF j >= l THEN t1
    ELSE IF j = i \/ c[j + 1] = 0 THEN LagrangeLoop(t1, i, j + 1, c, l)
    ELSE LET v == j - i
             a == mpz_tdiv_q(t1, IF v < 0 THEN v * (-1) ELSE v)
             b == IF v < 0 THEN -a ELSE a
         IN  LagrangeLoop(b * (j + 1), i, j + 1, c, l)

RECURSIVE CombineLoop(_, _, _, _)
\* the outer loop of pcs_t_share_combine from i on; ok is FALSE when the
\* loop returns 0 from inside
CombineLoop(r, i, c, k) ==
    IF i >= k.l THEN [ok |-> TRUE, rop |-> r]
    ELSE IF c[i + 1] = 0 THEN CombineLoop(r, i + 1, c, k)
    ELSE LET t1 == LagrangeLoop(k.delta, i, 0, c, k.l)
             t2 == Abs(t1) * 2
             t3 == mpz_powm(c[i + 1], t2, k.n2)
             inv == mpz_invert(t3, k.n2)
         IN  IF t1 < 0 /\ ~inv.ok THEN [ok |-> FALSE, rop |-> r]
             ELSE CombineLoop(MulMod(r, IF t1 < 0 THEN inv.val ELSE t3, k.n2),
                              i + 1, c, k)

\* pcs_t_share_combine after its loop, going on when 4 * delta^2 has no
\* inverse modulo n
pcs_t_share_combine_tail_NoCheck(k, loop, undef) ==
    LET r1 == dlog_s(k.n, loop.rop, undef)
        t1 == mpz_pow_ui(k.delta, 2) * 4
        inv == mpz_invert(t1, k.n)
    IN  IF ~loop.ok THEN [ret |-> 0, rop |-> loop.rop]
        ELSE [ret |-> 1,
              rop |-> mpz_mod(r1 * (IF inv.ok THEN inv.val ELSE undef), k.n)]

\* pcs_t_share_combine after its loop: loop is what the loop left (ok
\* FALSE: it returned 0); ret is the return value
pcs_t_share_combine_tail(k, loop, undef) ==
    LET r1 == dlog_s(k.n, loop.rop, undef)
        t1 == mpz_pow_ui(k.delta, 2) * 4
        inv == mpz_invert(t1, k.n)
    IN  IF ~loop.ok THEN [ret |-> 0, rop |-> loop.rop]
        ELSE IF ~inv.ok THEN [ret |-> 0, rop |-> r1]
        ELSE [ret |-> 1, rop |-> mpz_mod(r1 * inv.val, k.n)]

\* pcs_t_share_combine(pk, rop, c)
pcs_t_share_combine(k, c, undef) ==
    pcs_t_share_combine_tail(k, CombineLoop(1, 0, c, k), undef)

InitT ==
    /\ tst = "init"
    /\ tpk = NoTPublicKey
    /\ tvk = NoTPrivateKey
    /\ call = NoCall
    /\ px = NoPolynomial
    /\ au = <<>>
    /\ tc = NoCipher
    /\ fshr = <<>>
    /\ res = NoCombine

\* pcs_t_generate_key_pair(pk, vk, hr, bits, w, l): no check of w against
\* l; d1, d3 are the draws the two mpz_random_safe_prime loops accepted
TGenerateKeyPairWith(ws, ls) ==
    /\ tst = "init"
    /\ \E bits \in 1..MaxBits, w \in ws, l \in ls :
       \E d1, d3 \in UrandombRange(PrimeBits(bits)) :
          LET t1 == mpz_random_prime(d1, PrimeBits(bits))
              t3 == mpz_random_prime(d3, PrimeBits(bits))
              t2 == (t1 - 1) \div 2
              t4 == (t3 - 1) \div 2
              k == pcs_t_generate_key_pair(t1, t2, t3, t4, w, l)
          IN  /\ SafePrimeAccepted(t1) /\ SafePrimeAccepted(t3)
              /\ t1 # t3
              /\ IF Crt2AssertHolds(t1 * t3, t2 * t4)
                 THEN /\ tst' = "keys" /\ tpk' = k.pk /\ tvk' = k.vk
                      /\ call' = [alive |-> TRUE, p |-> t1, q |-> t3,
                                  w |-> w, l |-> l]
                 ELSE tst' = "abort" /\ UNCHANGED <<tpk, tvk, call>>
    /\ UNCHANGED <<px, au, tc, fshr, res, nonT>>

\* any quorum from 0 and any positive number of servers up to MaxL
TGenerateKeyPair == TGenerateKeyPairWith(0..MaxL, 1..MaxL)

\* pcs_t_init_polynomial(vk, hr); w = 0 would write coeff[0] past the
\* zero-length array and is left out
TInitPolynomial ==
    /\ tst = "keys" /\ call.alive /\ px.st = "none" /\ tvk.w >= 1
    /\ \E a \in UrandommSamples(tvk.nm) :
          px' = pcs_t_init_polynomial(tvk, a)
    /\ UNCHANGED <<tst, tpk, tvk, au, tc, fshr, res, call, nonT>>

\* pcs_t_compute_polynomial(vk, px, si, i); pcs_t_set_auth_server(au[i],
\* si, i) for the next server i
TDealShare ==
    /\ call.alive /\ px.st = "live" /\ Len(au) < tpk.l
    /\ LET i == Len(au)
       IN  au' = Append(au, pcs_t_set_auth_server(
                                pcs_t_compute_polynomial(tvk, px, i), i))
    /\ UNCHANGED <<tst, tpk, tvk, px, tc, fshr, res, call, nonT>>

\* pcs_t_free_polynomial(px), once every server has its share
TFreePolynomial ==
    /\ px.st = "live" /\ Len(au) = tpk.l /\ ~tc.set
    /\ px' = [px EXCEPT !.st = "freed"]
    /\ UNCHANGED <<tst, tpk, tvk, au, tc, fshr, res, call, nonT>>

\* pcs_t_free_private_key(vk), after the polynomial
TFreePrivateKey ==
    /\ tst = "keys" /\ call.alive /\ px.st = "freed" /\ ~tc.set
    /\ call' = [call EXCEPT !.alive = FALSE]
    /\ UNCHANGED <<tst, tpk, tvk, px, au, tc, fshr, res, nonT>>

\* pcs_t_encrypt(pk, hr, c, m), once the shares are dealt and the dealer
\* has dropped the polynomial
TEncrypt ==
    /\ tst = "keys" /\ ~tc.set /\ Len(au) = tpk.l /\ px.st = "freed"
    /\ \E m \in PlainSamples(tpk.n), u \in MultGroupSamples(tpk.n) :
          tc' = [set |-> TRUE, c |-> pcs_t_encrypt(tpk, m, u), m |-> m]
    /\ UNCHANGED <<tst, tpk, tvk, px, au, fshr, res, call, nonT>>

\* pcs_t_share_decrypt(pk, au[i], fshr[i], c) for the next server i
TShareDecrypt ==
    /\ tc.set /\ Len(fshr) < Len(au)
    /\ fshr' = Append(fshr, pcs_t_share_decrypt(tpk, au[Len(fshr) + 1], tc.c))
    /\ UNCHANGED <<tst, tpk, tvk, px, au, tc, res, call, nonT>>

\* the values an unspecified mpz_divexact result is sampled from
UndefSamples(n) == {0, n - 1}

\* pcs_t_share_combine(pk, rop, cshr), once every server has posted its
\* share, with cshr[i] = fshr[i] for the 0-based indices i in S and 0
\* elsewhere
TShareCombine ==
    /\ tc.set /\ ~res.set /\ Len(fshr) = tpk.l
    /\ \E S \in SUBSET (0..(tpk.l - 1)) :
          LET cshr == [j \in 1..tpk.l |-> IF (j - 1) \in S THEN fshr[j] ELSE 0]
              loop == CombineLoop(1, 0, cshr, tpk)
          IN  \E undef \in UndefSamples(tpk.n) :
                 LET r == pcs_t_share_combine_tail(tpk, loop, undef)
                 IN  res' = [set |-> TRUE, ret |-> r.ret, rop |-> r.rop, S |-> S,
                             loop |-> loop.ok]
    /\ UNCHANGED <<tst, tpk, tvk, px, au, tc, fshr, call, nonT>>

NextT ==
    \/ TGenerateKeyPair \/ TInitPolynomial \/ TDealShare \/ TFreePolynomial
    \/ TFreePrivateKey \/ TEncrypt \/ TShareDecrypt \/ TShareCombine

(***************************************************************************)
(* A direct call of mpz_2crt                                               *)
(***************************************************************************)
NoCrt == [st |-> "idle", a1 |-> 0, m1 |-> 0, a2 |-> 0, m2 |-> 0, rop |-> 0]

InitCrt == crt = NoCrt

\* the caller sets the arguments; rop is a variable of its own
CrtArguments ==
    /\ crt.st = "idle"
    /\ \E m1, m2 \in 2..MaxMod, a1, a2 \in (-MaxMod)..(2 * MaxMod) :
          crt' = [st |-> "ready", a1 |-> a1, m1 |-> m1, a2 |-> a2, m2 |-> m2,
                  rop |-> 0]
    /\ UNCHANGED nonCrt

\* mpz_2crt(rop, a1, m1, a2, m2): the assert ends the process when the
\* moduli share a factor
Crt2 ==
    /\ crt.st = "ready"
    /\ crt' = IF Crt2AssertHolds(crt.m1, crt.m2)
              THEN [crt EXCEPT !.st = "done",
                               !.rop = mpz_2crt(crt.a1, crt.m1, crt.a2, crt.m2)]
              ELSE [crt EXCEPT !.st = "abort"]
    /\ UNCHANGED nonCrt

NextCrt == CrtArguments \/ Crt2

(***************************************************************************)
(* The zero-knowledge proofs of pcs_t.c                                    *)
(***************************************************************************)
\* a 32-bit challenge kept as its two 16-bit halves
Half == 65536
\* 0xABCDABCD, the fixed challenge e of the ns protocol
NsChallenge == [hi |-> 43981, lo |-> 43981]
\* 0xDBCADBCA, the fixed sum of the two challenges of the 1-of-2 protocol
OneOfTwoChallenge == [hi |-> 56266, lo |-> 56266]

\* mpz_sub followed by mpz_mod 2^32, on halves
WideSub32(a, b) ==
    LET lo == a.lo - b.lo
        borrow == IF lo < 0 THEN 1 ELSE 0
    IN  [hi |-> (a.hi - b.hi - borrow) % Half, lo |-> lo % Half]

\* mpz_add followed by mpz_mod 2^32, on halves
WideAdd32(a, b) ==
    LET lo == a.lo + b.lo
    IN  [hi |-> (a.hi + b.hi + lo \div Half) % Half, lo |-> lo % Half]

\* mpz_powm(rop, b, e, m) for a challenge e: b^e = (b^(2^16))^hi * b^lo
mpz_powm_wide(b, e, m) ==
    LET b0 == b % m
        b16 == PowModNat(b0, Half, m)
        lo == PowModNat(b0, e.lo, m)
    IN  IF b16 = 0 /\ e.hi > 0 THEN 0
        ELSE MulMod(PowModNat(b16, e.hi, m), lo, m)

\* pcs_t_init_proof
NoProof == [e1 |-> [hi |-> 0, lo |-> 0], e2 |-> [hi |-> 0, lo |-> 0],
            u1 |-> 0, u2 |-> 0, a1 |-> 0, a2 |-> 0, z1 |-> 0, z2 |-> 0,
            m1 |-> 0, m2 |-> 0]
NoSession == [st |-> "none", kind |-> "none", u |-> 0, v |-> 0, pf |-> NoProof,
              ret |-> 0, tamper |-> "no", r |-> <<>>, ulive |-> FALSE]

\* the units the proof sessions sample: 1, the small ones, n - 1
ProofGroupSamples(n) ==
    {x \in 1..(n - 1) : mpz_gcd(x, n) = 1 /\ (x <= MaxRand + 1 \/ x = n - 1)}

\* pcs_t_r_encrypt(pk, hr, r, rop, plain1): the value of rop when r is drawn
pcs_t_r_encrypt(k, r, plain1) ==
    LET rop1 == mpz_powm(r, k.n, k.n2)
        t1 == mpz_powm(k.g, plain1, k.n2)
    IN  MulMod(rop1, t1, k.n2)

\* pcs_t_encrypt_r(pk, rop, r, plain1); plain1 is read before rop is written
pcs_t_encrypt_r(k, r, plain1) ==
    LET t1 == mpz_powm(k.g, plain1, k.n2)
        rop1 == mpz_powm(r, k.n, k.n2)
    IN  MulMod(rop1, t1, k.n2)

\* pcs_t_set_proof(pk, pf, m1, m2)
pcs_t_set_proof(pf, m1, m2) == [pf EXCEPT !.m1 = m1, !.m2 = m2]

\* pcs_t_compute_ns_protocol that leaves the prover's r out of z2
pcs_t_compute_ns_protocol_NoR(k, pf, u, v, r) ==
    [pf EXCEPT !.u2 = u, !.a2 = pcs_t_r_encrypt(k, r, 0),
               !.z2 = mpz_powm_wide(v, NsChallenge, k.n)]

\* pcs_t_compute_ns_protocol(pk, hr, pf, u, v, id); r is the draw of its
\* pcs_t_r_encrypt call
pcs_t_compute_ns_protocol(k, pf, u, v, r) ==
    LET a2 == pcs_t_r_encrypt(k, r, 0)
        e == NsChallenge
        z2 == mpz_powm_wide(v, e, k.n)
    IN  [pf EXCEPT !.u2 = u, !.a2 = a2, !.z2 = MulMod(z2, r, k.n)]

\* pcs_t_verify_ns_protocol that stops after the three gcd tests
pcs_t_verify_ns_protocol_GcdOnly(k, pf) ==
    IF mpz_gcd(pf.u2, k.n) = 1 /\ mpz_gcd(pf.a2, k.n) = 1
       /\ mpz_gcd(pf.z2, k.n) = 1 THEN 1 ELSE 0

\* pcs_t_verify_ns_protocol(pk, pf, id): its return value
pcs_t_verify_ns_protocol(k, pf) ==
    IF mpz_gcd(pf.u2, k.n) # 1 THEN 0
    ELSE IF mpz_gcd(pf.a2, k.n) # 1 THEN 0
    ELSE IF mpz_gcd(pf.z2, k.n) # 1 THEN 0
    ELSE LET t1 == pcs_t_encrypt_r(k, pf.z2, 0)
             e == NsChallenge
             t2 == MulMod(mpz_powm_wide(pf.u2, e, k.n2), pf.a2 % k.n2, k.n2)
         IN  IF t1 # t2 THEN 0 ELSE 1

\* pcs_t_compute_1of2_ns_protocol(pk, hr, pf, c1, cr1, k, id) for k >= m1;
\* ra and rb are the draws of its two pcs_t_r_encrypt calls
pcs_t_compute_1of2_ns_protocol(k, pf, c1, cr1, kk, ra, rb) ==
    LET t1 == mpz_invert(mpz_powm(k.g, k.n * pf.m1, k.n2), k.n2).val
        t2 == mpz_invert(mpz_powm(k.g, k.n * pf.m2, k.n2), k.n2).val
        u1 == MulMod(c1, t1, k.n2)
        u2 == MulMod(c1, t2, k.n2)
        v1 == mpz_powm(k.g * cr1, kk - pf.m1, k.n)
        a2 == pcs_t_r_encrypt(k, ra, 0)
        e2 == NsChallenge
        z2 == MulMod(mpz_powm_wide(ra, e2, k.n), ra, k.n)
        a1 == pcs_t_r_encrypt(k, rb, 0)
        e1 == WideSub32(OneOfTwoChallenge, e2)
        z1 == MulMod(mpz_powm_wide(v1, e1, k.n), rb, k.n)
    IN  [pf EXCEPT !.u1 = u1, !.u2 = u2, !.a1 = a1, !.a2 = a2,
                   !.e1 = e1, !.e2 = e2, !.z1 = z1, !.z2 = z2]

\* pcs_t_verify_1of2_ns_protocol(pk, pf, id): its return value
pcs_t_verify_1of2_ns_protocol(k, pf) ==
    IF \E x \in {pf.u2, pf.a2, pf.z2, pf.u1, pf.a1, pf.z1} :
          mpz_gcd(x, k.n) # 1 THEN 0
    ELSE LET t1 == pcs_t_encrypt_r(k, pf.z1, 0)
             t2 == MulMod(mpz_powm_wide(pf.u2, pf.e2, k.n2), pf.a2 % k.n2, k.n2)
             t3 == MulMod(mpz_powm_wide(pf.u1, pf.e1, k.n2), pf.a1 % k.n2, k.n2)
         IN  IF t1 # t2 THEN 0
             ELSE IF t1 # t3 THEN 0
             ELSE IF WideAdd32(pf.e1, pf.e2) # OneOfTwoChallenge THEN 0
             ELSE 1

InitP == ns = NoSession

\* pcs_t_generate_key_pair(pk, vk, hr, bits, 2, 4) of the proof program
ProofKeyPair == TGenerateKeyPairWith({2}, {4})

\* pcs_t_r_encrypt(pk, hr, v, u, _0): u an encryption of 0 with randomness v
ProofEncryptZero ==
    /\ tst = "keys" /\ ns.st = "none"
    /\ \E v \in ProofGroupSamples(tpk.n) :
          ns' = [ns EXCEPT !.st = "enc", !.v = v, !.ulive = TRUE,
                           !.u = pcs_t_r_encrypt(tpk, v, 0)]
    /\ UNCHANGED nonP

\* pcs_t_compute_ns_protocol(pk, hr, pf, u, v, id); it ends with
\* mpz_clear(u) on the caller's variable
ComputeNs ==
    /\ ns.st = "enc"
    /\ \E r \in ProofGroupSamples(tpk.n) :
          ns' = [ns EXCEPT !.st = "proved", !.kind = "ns", !.r = <<r>>,
                           !.ulive = FALSE,
                           !.pf = pcs_t_compute_ns_protocol(tpk, ns.pf, ns.u,
                                                            ns.v, r)]
    /\ UNCHANGED nonP

\* the proof reaches the verifier with a2 replaced by another residue
TamperA2 ==
    /\ ns.st = "proved" /\ ns.kind = "ns" /\ ns.tamper = "no"
    /\ \E x \in 0..(tpk.n2 - 1) :
          /\ x # ns.pf.a2
          /\ ns' = [ns EXCEPT !.tamper = "a2", !.pf.a2 = x]
    /\ UNCHANGED nonP

\* the proof reaches the verifier with z2 replaced by a value not
\* congruent to it modulo n
TamperZ2 ==
    /\ ns.st = "proved" /\ ns.kind = "ns" /\ ns.tamper = "no"
    /\ \E x \in 0..(tpk.n - 1) :
          /\ x # ns.pf.z2 % tpk.n
          /\ ns' = [ns EXCEPT !.tamper = "z2", !.pf.z2 = x]
    /\ UNCHANGED nonP

\* pcs_t_verify_ns_protocol(pk, pf, id)
VerifyNs ==
    /\ ns.st = "proved" /\ ns.kind = "ns"
    /\ ns' = [ns EXCEPT !.st = "verified",
                        !.ret = pcs_t_verify_ns_protocol(tpk, ns.pf)]
    /\ UNCHANGED nonP

\* pcs_t_set_proof(pk, pf, 0, 1); pcs_t_compute_1of2_ns_protocol(pk, hr, pf,
\* u, v, 0, id)
ComputeOneOfTwo ==
    /\ ns.st = "enc"
    /\ \E ra, rb \in ProofGroupSamples(tpk.n) :
          ns' = [ns EXCEPT !.st = "proved", !.kind = "1of2", !.r = <<ra, rb>>,
                           !.pf = pcs_t_compute_1of2_ns_protocol(tpk,
                                     pcs_t_set_proof(ns.pf, 0, 1), ns.u, ns.v,
                                     0, ra, rb)]
    /\ UNCHANGED nonP

\* the proof reaches the verifier with a1 replaced by another residue
TamperA1 ==
    /\ ns.st = "proved" /\ ns.kind = "1of2" /\ ns.tamper = "no"
    /\ \E x \in 0..(tpk.n2 - 1) :
          /\ x # ns.pf.a1
          /\ ns' = [ns EXCEPT !.tamper = "a1", !.pf.a1 = x]
    /\ UNCHANGED nonP

\* pcs_t_verify_1of2_ns_protocol(pk, pf, id)
VerifyOneOfTwo ==
    /\ ns.st = "proved" /\ ns.kind = "1of2"
    /\ ns' = [ns EXCEPT !.st = "verified",
                        !.ret = pcs_t_verify_1of2_ns_protocol(tpk, ns.pf)]
    /\ UNCHANGED nonP

(***************************************************************************)
(* Damgard-Jurik, djcs.c                                                   *)
(***************************************************************************)
\* the exponents s the sessions are run for
DjcsS == {1, 2}

NoDjPublicKey == [s |-> 0, n |-> <<>>, g |-> 0]
NoDjPrivateKey == [s |-> 0, n |-> <<>>, d |-> 0, mu |-> 0]
NoDj == [st |-> "init", pk |-> NoDjPublicKey, vk |-> NoDjPrivateKey,
         p |-> 0, q |-> 0, c |-> 0, m |-> 0, rop |-> 0]

RECURSIVE DlogInner(_, _, _, _, _, _, _, _)
\* the inner loop of dlog_s from k on; i is the running value of rop, and
\* n[x] of the code is n[x + 1] here.
\* A failed mpz_invert leaves t3 unspecified: undef stands for it
DlogInner(k, j, i, kfact, t1, t2, n, undef) ==
    IF k > j THEN [i |-> i, t1 |-> t1]
    ELSE LET rop1 == i - 1
             kfact1 == kfact * k
             t2a == MulMod(t2, mpz_mod(rop1, n[j]), n[j])
             inv == mpz_invert(kfact1, n[j])
             t3a == IF inv.ok THEN inv.val ELSE undef % n[j]
             t3b == MulMod(t3a, t2a, n[j])
             t3c == MulMod(t3b, n[k - 1] % n[j], n[j])
             t1a == mpz_mod(t1 - t3c, n[j])
         IN  DlogInner(k + 1, j, rop1, kfact1, t1a, t2a, n, undef)

RECURSIVE DlogOuter(_, _, _, _, _, _)
\* the outer loop of dlog_s from j on
DlogOuter(j, s, i, a, n, undef) ==
    IF j > s THEN i
    ELSE LET t1 == mpz_mod(a, n[j])
             r == DlogInner(2, j, i, 1, t1, i, n, undef)
         IN  DlogOuter(j + 1, s, r.t1, a, n, undef)

\* dlog_s(vk, rop, op) of djcs.c; mpz_divexact is unspecified when n[0]
\* does not divide its operand
djcs_dlog_s(k, op, undef) ==
    LET a0 == mpz_mod(op, k.n[k.s + 1]) - 1
        a == IF a0 % k.n[1] = 0 THEN a0 \div k.n[1] ELSE undef
    IN  DlogOuter(1, k.s, 0, a, k.n, undef)

\* djcs_generate_key_pair(s, pk, vk, hr, bits) from the primes p and q; mu
\* is unspecified when the final mpz_invert fails
djcs_generate_key_pair(s, p, q, undef) ==
    LET n0 == p * q
        d == mpz_lcm(p - 1, q - 1)
        g == n0 + 1
        n == [i \in 1..(s + 1) |-> mpz_pow_ui(n0, i)]
        k0 == [s |-> s, n |-> n, d |-> d, mu |-> 0]
        mu1 == djcs_dlog_s(k0, mpz_powm(g, d, n[s + 1]), undef)
        inv == mpz_invert(mu1, n[s])
    IN  [pk |-> [s |-> s, n |-> n, g |-> g],
         vk |-> [k0 EXCEPT !.mu = IF inv.ok THEN inv.val ELSE undef]]

\* djcs_encrypt(pk, hr, rop, plain1); u is the value
\* mpz_random_in_mult_group returned
djcs_encrypt(k, plain1, u) ==
    LET rop1 == mpz_powm(k.g, plain1, k.n[k.s + 1])
        t1 == mpz_powm(u, k.n[k.s], k.n[k.s + 1])
    IN  MulMod(rop1, t1, k.n[k.s + 1])

\* djcs_decrypt(vk, rop, cipher1)
djcs_decrypt(k, cipher1, undef) ==
    LET r1 == mpz_powm(cipher1, k.d, k.n[k.s + 1])
        r2 == djcs_dlog_s(k, r1, undef)
    IN  MulMod(r2, k.mu, k.n[k.s])

\* plaintexts of Z_{n^s}: the small ones, n - 1, n, and the largest
DjPlainSamples(n0, nmax) ==
    {m \in (0..MaxPlain) \cup {n0 - 1, n0, nmax - 1} : m < nmax}

InitDj == dj = NoDj

\* djcs_generate_key_pair; the two mpz_random_prime draws are not compared
DjGenerateKeyPair ==
    /\ dj.st = "init"
    /\ \E s \in DjcsS, bits \in 1..MaxBits :
       \E d1, d2 \in UrandombRange(PrimeBits(bits)) :
       \E undef \in {0, 1} :
          LET p == mpz_random_prime(d1, PrimeBits(bits))
              q == mpz_random_prime(d2, PrimeBits(bits))
              k == djcs_generate_key_pair(s, p, q, undef)
          IN  dj' = [dj EXCEPT !.st = "keys", !.pk = k.pk, !.vk = k.vk,
                               !.p = p, !.q = q]
    /\ UNCHANGED nonDj

\* djcs_encrypt(pk, hr, a, a)
DjEncrypt ==
    /\ dj.st = "keys"
    /\ \E m \in DjPlainSamples(dj.pk.n[1], dj.pk.n[dj.pk.s]),
          u \in MultGroupSamples(dj.pk.n[1]) :
          dj' = [dj EXCEPT !.st = "enc", !.m = m,
                           !.c = djcs_encrypt(dj.pk, m, u)]
    /\ UNCHANGED nonDj

\* djcs_decrypt(vk, b, a)
DjDecrypt ==
    /\ dj.st = "enc"
    /\ \E undef \in {0, 1} :
          dj' = [dj EXCEPT !.st = "dec",
                           !.rop = djcs_decrypt(dj.vk, dj.c, undef)]
    /\ UNCHANGED nonDj

NextDj == DjGenerateKeyPair \/ DjEncrypt \/ DjDecrypt

(***************************************************************************)
(* ElGamal, egcs.c                                                         *)
(***************************************************************************)
NoEgPublicKey == [g |-> 0, q |-> 0, h |-> 0]
NoEgPrivateKey == [x |-> 0, q |-> 0]
NoEgCipher == [c1 |-> 0, c2 |-> 0]
NoEg == [st |-> "init", pk |-> NoEgPublicKey, vk |-> NoEgPrivateKey,
         ct1 |-> NoEgCipher, ct2 |-> NoEgCipher, a |-> 0, b |-> 0,
         prod |-> NoEgCipher, rop |-> 0]

\* the values mpz_urandomm(., ., q - 1) followed by mpz_add_ui(., ., 1)
\* is sampled at: a value of [1, q - 1]
EgSamples(q) == {x + 1 : x \in UrandommSamples(q - 1)}

\* egcs_generate_key_pair(pk, vk, hr, bits) when mpz_random_prime returned
\* q and the two mpz_urandomm draws, plus 1, are g and x
egcs_generate_key_pair(q, g, x) ==
    [pk |-> [g |-> g, q |-> q, h |-> mpz_powm(g, x, q)],
     vk |-> [x |-> x, q |-> q]]

\* egcs_encrypt(pk, hr, rop, plain1) run alone; t is its draw plus 1
egcs_encrypt(k, t, plain1) ==
    LET c1 == mpz_powm(k.g, t, k.q)
        c2 == mpz_powm(k.h, t, k.q)
    IN  [c1 |-> c1, c2 |-> mpz_mod(c2 * plain1, k.q)]

\* egcs_ee_mul(pk, rop, ct1, ct2)
egcs_ee_mul(k, ct1, ct2) ==
    [c1 |-> mpz_mod(ct1.c1 * ct2.c2, k.q), c2 |-> mpz_mod(ct1.c2 * ct2.c2, k.q)]

\* egcs_decrypt(vk, rop, ct)
egcs_decrypt(k, c) ==
    LET t == (k.q - 1) - k.x
        r1 == mpz_powm(c.c1, t, k.q)
    IN  mpz_mod(r1 * c.c2, k.q)

InitEg == eg = NoEg

\* egcs_generate_key_pair(pk, vk, hr, bits)
EgGenerateKeyPair ==
    /\ eg.st = "init"
    /\ \E bits \in 1..MaxBits :
       \E d1 \in UrandombRange(bits) :
          LET q == mpz_random_prime(d1, bits)
          IN  \E g, x \in EgSamples(q) :
                 LET k == egcs_generate_key_pair(q, g, x)
                 IN  eg' = [eg EXCEPT !.st = "keys", !.pk = k.pk, !.vk = k.vk]
    /\ UNCHANGED nonEg

\* egcs_encrypt(pk, hr, ct1, a) and egcs_encrypt(pk, hr, ct2, b)
EgEncrypt ==
    /\ eg.st = "keys"
    /\ \E a, b, t1, t2 \in EgSamples(eg.pk.q) :
          eg' = [eg EXCEPT !.st = "enc", !.a = a, !.b = b,
                           !.ct1 = egcs_encrypt(eg.pk, t1, a),
                           !.ct2 = egcs_encrypt(eg.pk, t2, b)]
    /\ UNCHANGED nonEg

\* egcs_ee_mul(pk, prod, ct1, ct2)
EgEeMul ==
    /\ eg.st = "enc"
    /\ eg' = [eg EXCEPT !.st = "mul",
                        !.prod = egcs_ee_mul(eg.pk, eg.ct1, eg.ct2)]
    /\ UNCHANGED nonEg

\* egcs_decrypt(vk, rop, prod)
EgDecrypt ==
    /\ eg.st = "mul"
    /\ eg' = [eg EXCEPT !.st = "dec", !.rop = egcs_decrypt(eg.vk, eg.prod)]
    /\ UNCHANGED nonEg

NextEg == EgGenerateKeyPair \/ EgEncrypt \/ EgEeMul \/ EgDecrypt

(***************************************************************************)
(* Key verification, pcs.c                                                 *)
(***************************************************************************)
NoVerify == [st |-> "init", pk |-> NoPublicKey, vk |-> NoPrivateKey,
             fn |-> "none", ret |-> 0]

\* pcs_verify_public_key(pk)
pcs_verify_public_key(k) ==
    IF k.n + 1 # k.g THEN 0
    ELSE IF mpz_pow_ui(k.n, 2) # k.n2 THEN 0
    ELSE 1

\* pcs_verify_private_key(vk); t is unspecified when mpz_invert fails
pcs_verify_private_key(k, undef) ==
    LET inv == mpz_invert(k.lambda, k.n)
        t == IF inv.ok THEN inv.val ELSE undef
    IN  IF mpz_pow_ui(k.n, 2) # k.n2 THEN 0
        ELSE IF t # k.mu THEN 0
        ELSE 1

\* pcs_verify_key_pair(pk, vk)
pcs_verify_key_pair(k, v, undef) ==
    IF pcs_verify_public_key(k) = 0 \/ pcs_verify_private_key(v, undef) = 0
    THEN 0 ELSE 1

\* the key pairs pcs_generate_key_pair can return for bits <= MaxBits
PcsKeyPairs ==
    {pcs_generate_key_pair(mpz_random_prime(x[2], PrimeBits(x[1])),
                           mpz_random_prime(x[3], PrimeBits(x[1])), x[4]) :
        x \in {y \in (1..MaxBits) \X UrandombRange(PrimeBits(MaxBits))
                      \X UrandombRange(PrimeBits(MaxBits)) \X {0, 1} :
                 /\ y[2] \in UrandombRange(PrimeBits(y[1]))
                 /\ y[3] \in UrandombRange(PrimeBits(y[1]))
                 /\ mpz_random_prime(y[2], PrimeBits(y[1]))
                       # mpz_random_prime(y[3], PrimeBits(y[1]))}}

InitVf == vf = NoVerify

\* two pcs_generate_key_pair calls; the caller keeps the public key of the
\* first pair and the private key of the second
VfGenerateKeyPairs ==
    /\ vf.st = "init"
    /\ \E k1, k2 \in PcsKeyPairs :
          vf' = [vf EXCEPT !.st = "keys", !.pk = k1.pk, !.vk = k2.vk]
    /\ UNCHANGED nonVf

\* the same with both keys of one pair
VfGenerateKeyPair ==
    /\ vf.st = "init"
    /\ \E k1 \in PcsKeyPairs :
          vf' = [vf EXCEPT !.st = "keys", !.pk = k1.pk, !.vk = k1.vk]
    /\ UNCHANGED nonVf

\* pcs_verify_key_pair(pk, vk)
VfVerifyKeyPair ==
    /\ vf.st = "keys"
    /\ \E undef \in {0, 1} :
          vf' = [vf EXCEPT !.st = "verified", !.fn = "pair",
                           !.ret = pcs_verify_key_pair(vf.pk, vf.vk, undef)]
    /\ UNCHANGED nonVf

\* pcs_verify_public_key(pk)
VfVerifyPublicKey ==
    /\ vf.st = "keys"
    /\ vf' = [vf EXCEPT !.st = "verified", !.fn = "public",
                        !.ret = pcs_verify_public_key(vf.pk)]
    /\ UNCHANGED nonVf

\* pcs_verify_private_key(vk)
VfVerifyPrivateKey ==
    /\ vf.st = "keys"
    /\ \E undef \in {0, 1} :
          vf' = [vf EXCEPT !.st = "verified", !.fn = "private",
                           !.ret = pcs_verify_private_key(vf.vk, undef)]
    /\ UNCHANGED nonVf

NextVf ==
    \/ VfGenerateKeyPairs \/ VfGenerateKeyPair \/ VfVerifyKeyPair
    \/ VfVerifyPublicKey \/ VfVerifyPrivateKey

(***************************************************************************)
(* Destruction: pcs_free_private_key, pcs_t_free_private_key,              *)
(* pcs_t_free_auth_server, pcs_t_free_polynomial, djcs_free_private_key    *)
(***************************************************************************)
NoHeap == [kind |-> "none", st |-> "none", s |-> 0, limbs |-> {}]

\* the limbs of one mpz_t: the attribute it belongs to, its index in an
\* array attribute (0 otherwise) and the value the limbs hold
Limb(attr, idx, val) == [attr |-> attr, idx |-> idx, val |-> val]

\* an mpz_t array attribute, element i of the C array from seq[i + 1]
ArrayLimbs(attr, seq) == {Limb(attr, i - 1, seq[i]) : i \in 1..Len(seq)}

\* pcs_private_key
PcsPrivateKeyLimbs(k) ==
    {Limb("p", 0, k.p), Limb("p2", 0, k.p2), Limb("q", 0, k.q),
     Limb("q2", 0, k.q2), Limb("hp", 0, k.hp), Limb("hq", 0, k.hq),
     Limb("mu", 0, k.mu), Limb("lambda", 0, k.lambda), Limb("n", 0, k.n),
     Limb("n2", 0, k.n2)}

\* pcs_t_private_key; v is initialised and never assigned, vi holds the l
\* elements pcs_t_generate_key_pair initialised
TPrivateKeyLimbs(k) ==
    {Limb("v", 0, 0), Limb("nm", 0, k.nm), Limb("n", 0, k.n),
     Limb("n2", 0, k.n2), Limb("d", 0, k.d)}
        \cup ArrayLimbs("vi", [i \in 1..k.l |-> 0])

\* pcs_t_auth_server
AuthServerLimbs(server) == {Limb("si", 0, server.si)}

\* pcs_t_polynomial
PolynomialLimbs(poly) == ArrayLimbs("coeff", poly.coeff)

\* djcs_private_key: n[0..s], and j, which is initialised and never assigned
DjPrivateKeyLimbs(k) ==
    ArrayLimbs("n", k.n)
        \cup {Limb("j", 0, 0), Limb("mu", 0, k.mu), Limb("d", 0, k.d)}

\* mpz_zero on each of the limbs in zs: mpn_zero over the whole allocation
mpz_zeros(limbs, zs) ==
    {IF x \in zs THEN [x EXCEPT !.val = 0] ELSE x : x \in limbs}

\* pcs_clear_private_key(vk)
pcs_clear_private_key(limbs) ==
    mpz_zeros(limbs, {x \in limbs : x.attr \in {"p", "p2", "q", "q2", "hp",
                                               "hq", "mu", "lambda", "n",
                                               "n2"}})

\* pcs_free_private_key(vk): what the limbs hold when mpz_clears and free
\* release them
pcs_free_private_key(limbs) == pcs_clear_private_key(limbs)

\* pcs_t_free_private_key(vk): mpz_clears and free only
pcs_t_free_private_key(limbs) == limbs

\* pcs_t_free_auth_server(au): mpz_clear and free only
pcs_t_free_auth_server(limbs) == limbs

\* pcs_t_free_polynomial(px): mpz_clear of each coefficient and free only
pcs_t_free_polynomial(limbs) == limbs

\* djcs_free_private_key(vk): the loop stops before n[s]; j, mu and d are
\* zeroed
djcs_free_private_key(limbs, s) ==
    mpz_zeros(limbs, {x \in limbs : \/ x.attr = "n" /\ x.idx < s
                                    \/ x.attr \in {"j", "mu", "d"}})

\* the threshold key pairs of l = 4 servers and a quorum w of 1..3 from safe
\* primes that pass the assert of mpz_2crt
TKeyPairs ==
    {pcs_t_generate_key_pair(x[1], (x[1] - 1) \div 2,
                             x[2], (x[2] - 1) \div 2, x[3], 4) :
        x \in {y \in (1..(2 ^ MaxBits)) \X (1..(2 ^ MaxBits)) \X (1..3) :
                 /\ \E bits \in 1..MaxBits :
                    \E d1, d3 \in UrandombRange(PrimeBits(bits)) :
                       /\ y[1] = mpz_random_prime(d1, PrimeBits(bits))
                       /\ y[2] = mpz_random_prime(d3, PrimeBits(bits))
                 /\ SafePrimeAccepted(y[1]) /\ SafePrimeAccepted(y[2])
                 /\ y[1] # y[2]
                 /\ Crt2AssertHolds(y[1] * y[2],
                                    ((y[1] - 1) \div 2) * ((y[2] - 1) \div 2))}}

InitHeap == heap = NoHeap

\* pcs_generate_key_pair: the private key
HeapPcsPrivateKey ==
    /\ heap.st = "none"
    /\ \E k \in PcsKeyPairs :
          heap' = [kind |-> "pcs_private_key", st |-> "live", s |-> 0,
                   limbs |-> PcsPrivateKeyLimbs(k.vk)]
    /\ UNCHANGED nonHeap

\* pcs_t_generate_key_pair: the private key
HeapTPrivateKey ==
    /\ heap.st = "none"
    /\ \E k \in TKeyPairs :
          heap' = [kind |-> "pcs_t_private_key", st |-> "live", s |-> 0,
                   limbs |-> TPrivateKeyLimbs(k.vk)]
    /\ UNCHANGED nonHeap

\* pcs_t_init_polynomial: the dealer's polynomial
HeapPolynomial ==
    /\ heap.st = "none"
    /\ \E k \in TKeyPairs :
       \E a \in UrandommSamples(k.vk.nm) :
          heap' = [kind |-> "pcs_t_polynomial", st |-> "live", s |-> 0,
                   limbs |-> PolynomialLimbs(pcs_t_init_polynomial(k.vk, a))]
    /\ UNCHANGED nonHeap

\* pcs_t_set_auth_server: server i with its share of the polynomial
HeapAuthServer ==
    /\ heap.st = "none"
    /\ \E k \in TKeyPairs :
       \E a \in UrandommSamples(k.vk.nm), i \in 0..(k.vk.l - 1) :
          LET poly == pcs_t_init_polynomial(k.vk, a)
              si == pcs_t_compute_polynomial(k.vk, poly, i)
          IN  heap' = [kind |-> "pcs_t_auth_server", st |-> "live", s |-> 0,
                       limbs |-> AuthServerLimbs(
                                     pcs_t_set_auth_server(si, i))]
    /\ UNCHANGED nonHeap

\* djcs_generate_key_pair: the private key
HeapDjPrivateKey ==
    /\ heap.st = "none"
    /\ \E s \in DjcsS, bits \in 1..MaxBits :
       \E d1, d2 \in UrandombRange(PrimeBits(bits)) :
       \E undef \in {0, 1} :
          LET p == mpz_random_prime(d1, PrimeBits(bits))
              q == mpz_random_prime(d2, PrimeBits(bits))
              k == djcs_generate_key_pair(s, p, q, undef)
          IN  heap' = [kind |-> "djcs_private_key", st |-> "live",
                       s |-> k.vk.s, limbs |-> DjPrivateKeyLimbs(k.vk)]
    /\ UNCHANGED nonHeap

\* pcs_free_private_key(vk)
FreePcsPrivateKey ==
    /\ heap.st = "live" /\ heap.kind = "pcs_private_key"
    /\ heap' = [heap EXCEPT !.st = "released",
                            !.limbs = pcs_free_private_key(heap.limbs)]
    /\ UNCHANGED nonHeap

\* pcs_t_free_private_key(vk)
FreeTPrivateKey ==
    /\ heap.st = "live" /\ heap.kind = "pcs_t_private_key"
    /\ heap' = [heap EXCEPT !.st = "released",
                            !.limbs = pcs_t_free_private_key(heap.limbs)]
    /\ UNCHANGED nonHeap

\* pcs_t_free_polynomial(px)
FreePolynomial ==
    /\ heap.st = "live" /\ heap.kind = "pcs_t_polynomial"
    /\ heap' = [heap EXCEPT !.st = "released",
                            !.limbs = pcs_t_free_polynomial(heap.limbs)]
    /\ UNCHANGED nonHeap

\* pcs_t_free_auth_server(au)
FreeAuthServer ==
    /\ heap.st = "live" /\ heap.kind = "pcs_t_auth_server"
    /\ heap' = [heap EXCEPT !.st = "released",
                            !.limbs = pcs_t_free_auth_server(heap.limbs)]
    /\ UNCHANGED nonHeap

\* djcs_free_private_key(vk)
FreeDjPrivateKey ==
    /\ heap.st = "live" /\ heap.kind = "djcs_private_key"
    /\ heap' = [heap EXCEPT !.st = "released",
                            !.limbs = djcs_free_private_key(heap.limbs,
                                                            heap.s)]
    /\ UNCHANGED nonHeap

NextHeap ==
    \/ HeapPcsPrivateKey \/ HeapTPrivateKey \/ HeapPolynomial
    \/ HeapAuthServer \/ HeapDjPrivateKey
    \/ FreePcsPrivateKey \/ FreeTPrivateKey \/ FreePolynomial
    \/ FreeAuthServer \/ FreeDjPrivateKey

(***************************************************************************)
(* Two encrypt calls at once on one public key: egcs_encrypt, pcs_t_encrypt *)
(***************************************************************************)
Threads == {1, 2}

\* a thread's call: the statement it is at, its plaintext, what its own
\* hcs_rand delivers in a call running alone, the value an in-place update
\* has read, its local t (t1) and its rop
NoThread == [pc |-> "idle", m |-> 0, hr |-> 0, reg |-> 0, t |-> 0,
             rop |-> NoEgCipher]

NoShared == [st |-> "init", kind |-> "none", pk |-> NoEgPublicKey,
             gen |-> NoEgPublicKey, t |-> [i \in Threads |-> NoThread]]

\* a draw below bound from a generator that delivers hr when asked for a
\* value below alone; asked for another bound it delivers any value below it
DrawBelow(hr, bound, alone) ==
    IF bound = alone THEN {hr} ELSE UrandommSamples(bound)

\* thread i moves to statement pc with the locals of r
AtThread(i, r) == [th EXCEPT !.t[i] = r]

\* thread i's statement writes q into pk->q
AtThreadKey(i, r, q) == [th EXCEPT !.t[i] = r, !.pk.q = q]

InitTh == th = NoShared

\* egcs_generate_key_pair(pk, vk, hr, bits); the public key is then shared
ThEgGenerateKeyPair ==
    /\ th.st = "init"
    /\ \E bits \in 1..MaxSharedBits :
       \E d1 \in UrandombRange(bits) :
          LET q == mpz_random_prime(d1, bits)
          IN  \E g, x \in EgSamples(q) :
                 LET k == egcs_generate_key_pair(q, g, x)
                 IN  th' = [th EXCEPT !.st = "keys", !.kind = "egcs",
                                      !.pk = k.pk, !.gen = k.pk]
    /\ UNCHANGED nonTh

\* pcs_t_generate_key_pair; the public key is then shared
ThTGenerateKeyPair ==
    /\ th.st = "init"
    /\ \E k \in {x \in TKeyPairs : x.pk.w = 2} :
          th' = [th EXCEPT !.st = "keys", !.kind = "pcs_t",
                           !.pk = k.pk, !.gen = k.pk]
    /\ UNCHANGED nonTh

\* each thread calls egcs_encrypt(pk, hr_i, rop_i, plain1_i) with its own
\* hcs_rand, rop and plaintext (1 or q - 1); the two threads run the same
\* code, so the calls are taken up to exchanging the threads
ThEgEncryptCalls ==
    /\ th.st = "keys" /\ th.kind = "egcs"
    /\ \E m1, m2 \in {1, th.pk.q - 1} :
       \E h1, h2 \in UrandommSamples(th.pk.q - 1) :
          /\ m1 < m2 \/ (m1 = m2 /\ h1 <= h2)
          /\ th' = [th EXCEPT
                      !.st = "run",
                      !.t = [i \in Threads |->
                               [NoThread EXCEPT
                                  !.pc = "l67",
                                  !.m = IF i = 1 THEN m1 ELSE m2,
                                  !.hr = IF i = 1 THEN h1 ELSE h2]]]
    /\ UNCHANGED nonTh

\* each thread calls pcs_t_encrypt(pk, hr_i, rop_i, plain1_i) with its own
\* hcs_rand, rop and plaintext (0 or n - 1), up to exchanging the threads
ThTEncryptCalls ==
    /\ th.st = "keys" /\ th.kind = "pcs_t"
    /\ \E m1, m2 \in {0, th.pk.n - 1} :
       \E h1, h2 \in MultGroupSamples(th.pk.n) :
          /\ m1 < m2 \/ (m1 = m2 /\ h1 <= h2)
          /\ th' = [th EXCEPT
                      !.st = "run",
                      !.t = [i \in Threads |->
                               [NoThread EXCEPT
                                  !.pc = "l137", !.rop = 0,
                                  !.m = IF i = 1 THEN m1 ELSE m2,
                                  !.hr = IF i = 1 THEN h1 ELSE h2]]]
    /\ UNCHANGED nonTh

\* egcs.c 67, mpz_sub_ui(pk->q, pk->q, 1): the read of pk->q
EgSubRead ==
    /\ \E i \in Threads :
          /\ th.t[i].pc = "l67"
          /\ th' = AtThread(i, [th.t[i] EXCEPT !.pc = "l67w",
                                               !.reg = th.pk.q])
    /\ UNCHANGED nonTh

\* egcs.c 67: the write of pk->q
EgSubWrite ==
    /\ \E i \in Threads :
          /\ th.t[i].pc = "l67w"
          /\ th' = AtThreadKey(i, [th.t[i] EXCEPT !.pc = "l68"],
                               th.t[i].reg - 1)
    /\ UNCHANGED nonTh

\* egcs.c 68-69, mpz_urandomm(t, hr->rstate, pk->q); mpz_add_ui(t, t, 1)
EgUrandomm ==
    /\ \E i \in Threads :
          /\ th.t[i].pc = "l68"
          /\ \E x \in DrawBelow(th.t[i].hr, th.pk.q, th.gen.q - 1) :
                th' = AtThread(i, [th.t[i] EXCEPT !.pc = "l70", !.t = x + 1])
    /\ UNCHANGED nonTh

\* egcs.c 70, mpz_add_ui(pk->q, pk->q, 1): the read of pk->q
EgAddRead ==
    /\ \E i \in Threads :
          /\ th.t[i].pc = "l70"
          /\ th' = AtThread(i, [th.t[i] EXCEPT !.pc = "l70w",
                                               !.reg = th.pk.q])
    /\ UNCHANGED nonTh

\* egcs.c 70: the write of pk->q
EgAddWrite ==
    /\ \E i \in Threads :
          /\ th.t[i].pc = "l70w"
          /\ th' = AtThreadKey(i, [th.t[i] EXCEPT !.pc = "l71"],
                               th.t[i].reg + 1)
    /\ UNCHANGED nonTh

\* egcs.c 71, mpz_powm(rop->c1, pk->g, t, pk->q)
EgPowmC1 ==
    /\ \E i \in Threads :
          /\ th.t[i].pc = "l71"
          /\ th' = AtThread(i, [th.t[i] EXCEPT
                                  !.pc = "l72",
                                  !.rop.c1 = mpz_powm(th.pk.g, th.t[i].t,
                                                      th.pk.q)])
    /\ UNCHANGED nonTh

\* egcs.c 72-73, mpz_powm(rop->c2, pk->h, t, pk->q);
\* mpz_mul(rop->c2, rop->c2, plain1)
EgPowmC2 ==
    /\ \E i \in Threads :
          /\ th.t[i].pc = "l72"
          /\ th' = AtThread(i, [th.t[i] EXCEPT
                                  !.pc = "l74",
                                  !.rop.c2 = mpz_powm(th.pk.h, th.t[i].t,
                                                      th.pk.q) * th.t[i].m])
    /\ UNCHANGED nonTh

\* egcs.c 74, mpz_mod(rop->c2, rop->c2, pk->q)
EgModC2 ==
    /\ \E i \in Threads :
          /\ th.t[i].pc = "l74"
          /\ th' = AtThread(i, [th.t[i] EXCEPT
                                  !.pc = "done",
                                  !.rop.c2 = mpz_mod(th.t[i].rop.c2,
                                                     th.pk.q)])
    /\ UNCHANGED nonTh

\* pcs_t.c 137, mpz_random_in_mult_group(t1, hr->rstate, pk->n)
TRandomInMultGroup ==
    /\ \E i \in Threads :
          /\ th.t[i].pc = "l137"
          /\ \E u \in IF th.pk.n = th.gen.n THEN {th.t[i].hr}
                      ELSE MultGroupSamples(th.pk.n) :
                th' = AtThread(i, [th.t[i] EXCEPT !.pc = "l138", !.t = u])
    /\ UNCHANGED nonTh

\* pcs_t.c 138, mpz_powm(t1, t1, pk->n, pk->n2)
TPowmT1 ==
    /\ \E i \in Threads :
          /\ th.t[i].pc = "l138"
          /\ th' = AtThread(i, [th.t[i] EXCEPT
                                  !.pc = "l139",
                                  !.t = mpz_powm(th.t[i].t, th.pk.n,
                                                 th.pk.n2)])
    /\ UNCHANGED nonTh

\* pcs_t.c 139, mpz_powm(rop, pk->g, plain1, pk->n2)
TPowmRop ==
    /\ \E i \in Threads :
          /\ th.t[i].pc = "l139"
          /\ th' = AtThread(i, [th.t[i] EXCEPT
                                  !.pc = "l140",
                                  !.rop = mpz_powm(th.pk.g, th.t[i].m,
                                                   th.pk.n2)])
    /\ UNCHANGED nonTh

\* pcs_t.c 140-141, mpz_mul(rop, rop, t1); mpz_mod(rop, rop, pk->n2)
TMulMod ==
    /\ \E i \in Threads :
          /\ th.t[i].pc = "l140"
          /\ th' = AtThread(i, [th.t[i] EXCEPT
                                  !.pc = "done",
                                  !.rop = MulMod(th.t[i].rop, th.t[i].t,
                                                 th.pk.n2)])
    /\ UNCHANGED nonTh

\* the ciphertext thread i's call produces running alone on the generated key
AloneRop(i) ==
    IF th.kind = "egcs"
    THEN egcs_encrypt(th.gen, th.t[i].hr + 1, th.t[i].m)
    ELSE pcs_t_encrypt(th.gen, th.t[i].m, th.t[i].hr)

NextTh ==
    \/ ThEgGenerateKeyPair \/ ThTGenerateKeyPair
    \/ ThEgEncryptCalls \/ ThTEncryptCalls
    \/ EgSubRead \/ EgSubWrite \/ EgUrandomm \/ EgAddRead \/ EgAddWrite
    \/ EgPowmC1 \/ EgPowmC2 \/ EgModC2
    \/ TRandomInMultGroup \/ TPowmT1 \/ TPowmRop \/ TMulMod

(***************************************************************************)
(* The operations statement by statement on the caller's objects, for      *)
(* calls whose rop is one of the inputs                                    *)
(***************************************************************************)
\* mem holds the caller's mpz_t objects under the names of the parameters;
\* o is the object handed over as rop ("rop" is an object of its own)
NoAlias == [st |-> "init", fn |-> "none", n |-> 0, mem |-> <<>>, o |-> "rop",
            out |-> 0, ref |-> 0]

\* pcs_encrypt(pk, rop, plain1); u is the value the do-while loop accepted
pcs_encrypt_at(k, mem, o, u) ==
    LET t2 == mpz_powm(u, k.n, k.n2)
        s1 == [mem EXCEPT ![o] = mpz_powm(k.g, mem.plain1, k.n2)]
    IN  [s1 EXCEPT ![o] = MulMod(s1[o], t2, k.n2)]

\* pcs_decrypt(vk, rop, cipher1)
pcs_decrypt_at(k, mem, o) ==
    LET t1 == pcs_decrypt_half(mem.cipher1, k.p, k.p2, k.hp)
        t2 == pcs_decrypt_half(mem.cipher1, k.q, k.q2, k.hq)
        s1 == [mem EXCEPT ![o] = mpz_2crt(t1, k.p, t2, k.q)]
    IN  [s1 EXCEPT ![o] = mpz_mod(s1[o], k.n)]

\* pcs_ep_add(pk, rop, cipher1, plain1)
pcs_ep_add_at(k, mem, o) ==
    LET t1 == mem.cipher1
        s1 == [mem EXCEPT ![o] = mpz_powm(k.g, mem.plain1, k.n2)]
    IN  [s1 EXCEPT ![o] = MulMod(s1[o], t1 % k.n2, k.n2)]

\* pcs_ee_add(pk, rop, cipher1, cipher2)
pcs_ee_add_at(k, mem, o) ==
    [mem EXCEPT ![o] = MulMod(mem.cipher1 % k.n2, mem.cipher2 % k.n2, k.n2)]

\* pcs_ep_mul(pk, rop, cipher1, plain1)
pcs_ep_mul_at(k, mem, o) ==
    [mem EXCEPT ![o] = mpz_powm(mem.cipher1, mem.plain1, k.n2)]

\* pcs_t_encrypt(pk, hr, rop, plain1); u is the value
\* mpz_random_in_mult_group returned
pcs_t_encrypt_at(k, mem, o, u) ==
    LET t1 == mpz_powm(u, k.n, k.n2)
        s1 == [mem EXCEPT ![o] = mpz_powm(k.g, mem.plain1, k.n2)]
    IN  [s1 EXCEPT ![o] = MulMod(s1[o], t1, k.n2)]

\* pcs_t_encrypt_r(pk, rop, r, plain1)
pcs_t_encrypt_r_at(k, mem, o) ==
    LET t1 == mpz_powm(k.g, mem.plain1, k.n2)
        s1 == [mem EXCEPT ![o] = mpz_powm(mem.r, k.n, k.n2)]
    IN  [s1 EXCEPT ![o] = MulMod(s1[o], t1, k.n2)]

\* pcs_t_r_encrypt(pk, hr, r, rop, plain1); u is the value
\* mpz_random_in_mult_group stores in r
pcs_t_r_encrypt_at(k, mem, o, u) ==
    LET s0 == [mem EXCEPT !.r = u]
        s1 == [s0 EXCEPT ![o] = mpz_powm(s0.r, k.n, k.n2)]
        t1 == mpz_powm(k.g, s1.plain1, k.n2)
    IN  [s1 EXCEPT ![o] = MulMod(s1[o], t1, k.n2)]

\* the call made on mem with o as rop, and the same call with rop an object
\* of its own
Called(fn, n, mem, o, after, apart) ==
    [st |-> "done", fn |-> fn, n |-> n, mem |-> mem, o |-> o,
     out |-> after[o], ref |-> apart.rop]

InitAl == al = NoAlias

\* pcs_encrypt(pk, o, plain1)
AlEncrypt ==
    /\ al.st = "init"
    /\ \E k \in PcsKeyPairs :
       \E m \in PlainSamples(k.pk.n), u \in MultGroupSamples(k.pk.n) :
       \E o \in {"rop", "plain1"} :
          LET mem == [rop |-> 0, plain1 |-> m]
          IN  al' = Called("pcs_encrypt", k.pk.n, mem, o,
                           pcs_encrypt_at(k.pk, mem, o, u),
                           pcs_encrypt_at(k.pk, mem, "rop", u))
    /\ UNCHANGED nonAl

\* pcs_decrypt(vk, o, cipher1) of a fresh encryption
AlDecrypt ==
    /\ al.st = "init"
    /\ \E k \in PcsKeyPairs :
       \E m \in PlainSamples(k.pk.n), u \in MultGroupSamples(k.pk.n) :
       \E o \in {"rop", "cipher1"} :
          LET mem == [rop |-> 0, cipher1 |-> pcs_encrypt(k.pk, m, u)]
          IN  al' = Called("pcs_decrypt", k.pk.n, mem, o,
                           pcs_decrypt_at(k.vk, mem, o),
                           pcs_decrypt_at(k.vk, mem, "rop"))
    /\ UNCHANGED nonAl

\* pcs_ep_add(pk, o, cipher1, plain1)
AlEpAdd ==
    /\ al.st = "init"
    /\ \E k \in PcsKeyPairs :
       \E m \in PlainSamples(k.pk.n), u \in MultGroupSamples(k.pk.n) :
       \E a \in 0..MaxAdd, o \in {"rop", "cipher1", "plain1"} :
          LET mem == [rop |-> 0, cipher1 |-> pcs_encrypt(k.pk, m, u),
                      plain1 |-> a]
          IN  al' = Called("pcs_ep_add", k.pk.n, mem, o,
                           pcs_ep_add_at(k.pk, mem, o),
                           pcs_ep_add_at(k.pk, mem, "rop"))
    /\ UNCHANGED nonAl

\* pcs_ee_add(pk, o, cipher1, cipher2)
AlEeAdd ==
    /\ al.st = "init"
    /\ \E k \in PcsKeyPairs :
       \E m1, m2 \in PlainSamples(k.pk.n), u \in MultGroupSamples(k.pk.n) :
       \E o \in {"rop", "cipher1", "cipher2"} :
          LET mem == [rop |-> 0, cipher1 |-> pcs_encrypt(k.pk, m1, u),
                      cipher2 |-> pcs_encrypt(k.pk, m2, u)]
          IN  al' = Called("pcs_ee_add", k.pk.n, mem, o,
                           pcs_ee_add_at(k.pk, mem, o),
                           pcs_ee_add_at(k.pk, mem, "rop"))
    /\ UNCHANGED nonAl

\* pcs_ep_mul(pk, o, cipher1, plain1)
AlEpMul ==
    /\ al.st = "init"
    /\ \E k \in PcsKeyPairs :
       \E m \in PlainSamples(k.pk.n), u \in MultGroupSamples(k.pk.n) :
       \E a \in 0..MaxAdd, o \in {"rop", "cipher1", "plain1"} :
          LET mem == [rop |-> 0, cipher1 |-> pcs_encrypt(k.pk, m, u),
                      plain1 |-> a]
          IN  al' = Called("pcs_ep_mul", k.pk.n, mem, o,
                           pcs_ep_mul_at(k.pk, mem, o),
                           pcs_ep_mul_at(k.pk, mem, "rop"))
    /\ UNCHANGED nonAl

\* pcs_t_encrypt(pk, hr, o, plain1)
AlTEncrypt ==
    /\ al.st = "init"
    /\ \E k \in TKeyPairs :
       \E m \in PlainSamples(k.pk.n), u \in MultGroupSamples(k.pk.n) :
       \E o \in {"rop", "plain1"} :
          LET mem == [rop |-> 0, plain1 |-> m]
          IN  al' = Called("pcs_t_encrypt", k.pk.n, mem, o,
                           pcs_t_encrypt_at(k.pk, mem, o, u),
                           pcs_t_encrypt_at(k.pk, mem, "rop", u))
    /\ UNCHANGED nonAl

\* pcs_t_encrypt_r(pk, o, r, plain1)
AlTEncryptR ==
    /\ al.st = "init"
    /\ \E k \in TKeyPairs :
       \E m \in PlainSamples(k.pk.n), u \in MultGroupSamples(k.pk.n) :
       \E o \in {"rop", "r", "plain1"} :
          LET mem == [rop |-> 0, r |-> u, plain1 |-> m]
          IN  al' = Called("pcs_t_encrypt_r", k.pk.n, mem, o,
                           pcs_t_encrypt_r_at(k.pk, mem, o),
                           pcs_t_encrypt_r_at(k.pk, mem, "rop"))
    /\ UNCHANGED nonAl

\* pcs_t_r_encrypt(pk, hr, r, o, plain1); r is an output as well
AlTREncrypt ==
    /\ al.st = "init"
    /\ \E k \in TKeyPairs :
       \E m \in PlainSamples(k.pk.n), u \in MultGroupSamples(k.pk.n) :
       \E o \in {"rop", "plain1"} :
          LET mem == [rop |-> 0, r |-> 0, plain1 |-> m]
          IN  al' = Called("pcs_t_r_encrypt", k.pk.n, mem, o,
                           pcs_t_r_encrypt_at(k.pk, mem, o, u),
                           pcs_t_r_encrypt_at(k.pk, mem, "rop", u))
    /\ UNCHANGED nonAl

NextAl ==
    \/ AlEncrypt \/ AlDecrypt \/ AlEpAdd \/ AlEeAdd \/ AlEpMul
    \/ AlTEncrypt \/ AlTEncryptR \/ AlTREncrypt

(***************************************************************************)
(* com/util.c: mpz_random_prime called directly                            *)
(***************************************************************************)
NoRandomPrime == [st |-> "init", bits |-> 0, draw |-> 0, rop |-> 0]

InitRp == rp = NoRandomPrime

\* mpz_random_prime(rop, rstate, bits)
RandomPrime ==
    /\ rp.st = "init"
    /\ \E bits \in 1..MaxPrimeBits :
       \E draw \in UrandombRange(bits) :
          rp' = [st |-> "done", bits |-> bits, draw |-> draw,
                 rop |-> mpz_random_prime(draw, bits)]
    /\ UNCHANGED nonRp

NextRp == RandomPrime

(***************************************************************************)
(* Key generation by requested size: pcs_generate_key_pair,                *)
(* pcs_t_generate_key_pair, and the verify calls on the fresh pair         *)
(***************************************************************************)
\* rpub and rpriv are -1 until the verify call has been made
NoKeyGen == [st |-> "init", fn |-> "none", bits |-> 0, pk |-> NoPublicKey,
             vk |-> NoPrivateKey, rpub |-> -1, rpriv |-> -1]

RECURSIVE mpz_sizeinbase2(_)
\* mpz_sizeinbase(x, 2) of a positive x
mpz_sizeinbase2(x) == IF x < 2 THEN 1 ELSE 1 + mpz_sizeinbase2(x \div 2)

InitKg == kg = NoKeyGen

\* pcs_generate_key_pair(pk, vk, bits): the loop draws until p # q
KgGenerateKeyPair ==
    /\ kg.st = "init"
    /\ \E bits \in 1..MaxKeyBits :
       \E d1, d2 \in UrandombRange(PrimeBits(bits)), undef \in {0, 1} :
          LET p == mpz_random_prime(d1, PrimeBits(bits))
              q == mpz_random_prime(d2, PrimeBits(bits))
              k == pcs_generate_key_pair(p, q, undef)
          IN  /\ p # q
              /\ kg' = [kg EXCEPT !.st = "keys", !.fn = "pcs", !.bits = bits,
                                  !.pk = k.pk, !.vk = k.vk]
    /\ UNCHANGED nonKg

\* pcs_t_generate_key_pair(pk, vk, hr, bits, 2, 4)
KgTGenerateKeyPair ==
    /\ kg.st = "init"
    /\ \E bits \in 1..MaxKeyBits :
       \E d1, d3 \in UrandombRange(PrimeBits(bits)) :
          LET t1 == mpz_random_prime(d1, PrimeBits(bits))
              t3 == mpz_random_prime(d3, PrimeBits(bits))
              t2 == (t1 - 1) \div 2
              t4 == (t3 - 1) \div 2
              k == pcs_t_generate_key_pair(t1, t2, t3, t4, 2, 4)
          IN  /\ SafePrimeAccepted(t1) /\ SafePrimeAccepted(t3)
              /\ t1 # t3
              /\ IF Crt2AssertHolds(t1 * t3, t2 * t4)
                 THEN kg' = [kg EXCEPT !.st = "keys", !.fn = "pcs_t",
                                       !.bits = bits, !.pk = k.pk,
                                       !.vk = k.vk]
                 ELSE kg' = [kg EXCEPT !.st = "abort", !.fn = "pcs_t",
                                       !.bits = bits]
    /\ UNCHANGED nonKg

\* pcs_verify_public_key(pk) on the fresh key
KgVerifyPublicKey ==
    /\ kg.st = "keys" /\ kg.fn = "pcs" /\ kg.rpub = -1
    /\ kg' = [kg EXCEPT !.rpub = pcs_verify_public_key(kg.pk)]
    /\ UNCHANGED nonKg

\* pcs_verify_private_key(vk) on the fresh key
KgVerifyPrivateKey ==
    /\ kg.st = "keys" /\ kg.fn = "pcs" /\ kg.rpriv = -1
    /\ \E undef \in {0, 1} :
          kg' = [kg EXCEPT !.rpriv = pcs_verify_private_key(kg.vk, undef)]
    /\ UNCHANGED nonKg

NextKg ==
    \/ KgGenerateKeyPair \/ KgTGenerateKeyPair
    \/ KgVerifyPublicKey \/ KgVerifyPrivateKey

(***************************************************************************)
(* Seeding: mpz_seed and the operations that seed a generator              *)
(***************************************************************************)
\* dev: "ok", "eopen" (fopen of /dev/urandom fails) or "eread" (fread
\* fails); old: what the seed variable held before; ret: what the caller
\* gets back; seed: the value gmp_randseed received; went: the operation
\* went on to draw from the generator
NoSeeding == [st |-> "init", fn |-> "none", dev |-> "ok", old |-> 0,
              ret |-> "none", seed |-> 0, went |-> FALSE]

EntropyDevice == {"ok", "eopen", "eread"}

\* mpz_seed(seed, bits): bytes is what fread delivers; on failure seed
\* keeps its value
mpz_seed(old, dev, bytes) ==
    IF dev = "eopen" THEN [ret |-> "HCS_EOPEN", seed |-> old]
    ELSE IF dev = "eread" THEN [ret |-> "HCS_EREAD", seed |-> old]
    ELSE [ret |-> "HCS_OK", seed |-> bytes]

\* hcs_rand_init(v): the mpz_seed call is compiled out (#if 0), the
\* generator is seeded with v
hcs_rand_init(v, dev, bytes) ==
    [ret |-> "hr", seed |-> v, went |-> TRUE]

\* the seeding of pcs_encrypt and of pcs_reencrypt: t1 is 0 from mpz_init,
\* the result of mpz_seed is dropped
pcs_seed_t1(dev, bytes) ==
    LET s == mpz_seed(0, dev, bytes)
    IN  [ret |-> "void", seed |-> s.seed, went |-> TRUE]

\* the seeding of pcs_generate_key_pair: vk->p holds old, the result of
\* mpz_seed is dropped
pcs_seed_p(old, dev, bytes) ==
    LET s == mpz_seed(old, dev, bytes)
    IN  [ret |-> "void", seed |-> s.seed, went |-> TRUE]

\* the session after the call
Seeded(fn, dev, old, r) ==
    [st |-> "done", fn |-> fn, dev |-> dev, old |-> old, ret |-> r.ret,
     seed |-> r.seed, went |-> r.went]

InitEnt == ent = NoSeeding

\* hcs_rand_init(v)
EntRandInit ==
    /\ ent.st = "init"
    /\ \E dev \in EntropyDevice, v \in UrandombRange(MaxBits) :
       \E bytes \in UrandombRange(MaxBits) :
          ent' = Seeded("hcs_rand_init", dev, v, hcs_rand_init(v, dev, bytes))
    /\ UNCHANGED nonEnt

\* pcs_encrypt(pk, rop, plain1)
EntEncrypt ==
    /\ ent.st = "init"
    /\ \E dev \in EntropyDevice, bytes \in UrandombRange(MaxBits) :
          ent' = Seeded("pcs_encrypt", dev, 0, pcs_seed_t1(dev, bytes))
    /\ UNCHANGED nonEnt

\* pcs_reencrypt(pk, rop, op)
EntReencrypt ==
    /\ ent.st = "init"
    /\ \E dev \in EntropyDevice, bytes \in UrandombRange(MaxBits) :
          ent' = Seeded("pcs_reencrypt", dev, 0, pcs_seed_t1(dev, bytes))
    /\ UNCHANGED nonEnt

\* pcs_generate_key_pair(pk, vk, bits) on a key that is fresh (p = 0) or
\* holds the p of an earlier pair
EntGenerateKeyPair ==
    /\ ent.st = "init"
    /\ \E dev \in EntropyDevice, bytes \in UrandombRange(MaxBits) :
       \E old \in {0} \cup {k.vk.p : k \in PcsKeyPairs} :
          ent' = Seeded("pcs_generate_key_pair", dev, old,
                        pcs_seed_p(old, dev, bytes))
    /\ UNCHANGED nonEnt

NextEnt == EntRandInit \/ EntEncrypt \/ EntReencrypt \/ EntGenerateKeyPair

(***************************************************************************)
(* The vi array over the life of a threshold private key                   *)
(***************************************************************************)
\* calls: the calls made so far; vi: what vk->vi holds (-1: never
\* assigned and not NULL, 0: NULL, else the number of an array in arrs); l: vk->l;
\* arrs: every array malloc delivered, with the times it was passed to
\* free (rel) and the times each element was passed to mpz_clear (elems);
\* uar: memory was read or written after its release or free received a
\* pointer malloc never gave; st: "none", "live", "freed" (the key itself
\* was released) or "abort" (the allocator stopped the process)
NoKeyLife == [st |-> "none", calls |-> << >>, vi |-> 0, l |-> 0,
              arrs |-> << >>, uar |-> FALSE]

\* pcs_t_init_private_key: w = l = 0, five mpz_inits; vi is not assigned,
\* so it holds what malloc left there (NULL or not)
pcs_t_init_private_key(left) ==
    [st |-> "live", calls |-> <<"init">>, vi |-> left, l |-> 0,
     arrs |-> << >>, uar |-> FALSE]

\* the vi part of pcs_t_generate_key_pair(pk, vk, hr, bits, w, l): a new
\* array replaces vk->vi whatever it held; when malloc fails the call
\* returns 0 with vi = NULL and vk->l as it was
pcs_t_generate_vi(k, l, mallocOk) ==
    IF mallocOk
    THEN [k EXCEPT !.calls = Append(@, "generate"),
                   !.vi = Len(k.arrs) + 1,
                   !.l = l,
                   !.arrs = Append(@, [l |-> l, rel |-> 0,
                                       elems |-> [i \in 1..l |-> 0]])]
    ELSE [k EXCEPT !.calls = Append(@, "generate0"), !.vi = 0]

\* if (vk->vi) { for (i < vk->l) mpz_clear(vk->vi[i]); free(vk->vi); }
\* as pcs_t_clear_private_key and pcs_t_free_private_key both have it;
\* vk->vi keeps its value
ReleaseVi(k) ==
    IF k.vi = 0 THEN k
    ELSE IF k.vi = -1 THEN [k EXCEPT !.uar = TRUE]
    ELSE LET a == k.arrs[k.vi]
         IN  [k EXCEPT !.uar = @ \/ a.rel > 0,
                       !.arrs[k.vi] =
                           [l |-> a.l, rel |-> a.rel + 1,
                            elems |-> [i \in 1..a.l |->
                                IF i <= k.l THEN a.elems[i] + 1
                                ELSE a.elems[i]]]]

\* pcs_t_clear_private_key(vk): mpz_zeros of the five numbers, then the
\* release of vi
pcs_t_clear_vi(k) == [ReleaseVi(k) EXCEPT !.calls = Append(@, "clear")]

\* pcs_t_free_private_key(vk): mpz_clears of the five numbers, the release
\* of vi, free(vk)
pcs_t_free_vi(k) ==
    [ReleaseVi(k) EXCEPT !.calls = Append(@, "free"), !.st = "freed"]

\* a release of released memory is undefined: the allocator may stop the
\* process or the call may return
AfterRelease(k, r, out) ==
    IF r.uar /\ ~k.uar /\ out = "abort" THEN [r EXCEPT !.st = "abort"]
    ELSE r

ReleaseOutcomes == {"returns", "abort"}

InitLc == lc = NoKeyLife

\* pcs_t_init_private_key()
LcInit ==
    /\ lc.st = "none"
    /\ \E left \in {0, -1} : lc' = pcs_t_init_private_key(left)
    /\ UNCHANGED nonLc

\* pcs_t_generate_key_pair(pk, vk, hr, bits, w, l)
LcGenerate ==
    /\ lc.st = "live"
    /\ Len(lc.calls) <= MaxOps
    /\ \E l \in 1..MaxAdd, mallocOk \in BOOLEAN :
          lc' = pcs_t_generate_vi(lc, l, mallocOk)
    /\ UNCHANGED nonLc

\* pcs_t_clear_private_key(vk)
LcClear ==
    /\ lc.st = "live"
    /\ Len(lc.calls) <= MaxOps
    /\ \E out \in ReleaseOutcomes :
          lc' = AfterRelease(lc, pcs_t_clear_vi(lc), out)
    /\ UNCHANGED nonLc

\* pcs_t_free_private_key(vk)
LcFree ==
    /\ lc.st = "live"
    /\ Len(lc.calls) <= MaxOps
    /\ \E out \in ReleaseOutcomes :
          lc' = AfterRelease(lc, pcs_t_free_vi(lc), out)
    /\ UNCHANGED nonLc

NextLc == LcInit \/ LcGenerate \/ LcClear \/ LcFree

(***************************************************************************)
(* The Lagrange coefficients of pcs_t_share_combine at full width          *)
(***************************************************************************)
\* an mpz_t as GMP holds it: a sign and the limbs of the magnitude, least
\* significant first, no leading zero limb (zero has no limbs); limbs are
\* 16 bits wide here
LimbBase == mpz_pow_ui(2, 16)

RECURSIVE mpn_set_ui(_)
mpn_set_ui(x) ==
    IF x = 0 THEN << >>
    ELSE <<x % LimbBase>> \o mpn_set_ui(x \div LimbBase)

RECURSIVE mpn_mul_1(_, _, _)
\* mag * u + carry
mpn_mul_1(mag, u, carry) ==
    IF mag = << >> THEN mpn_set_ui(carry)
    ELSE LET t == Head(mag) * u + carry
         IN  <<t % LimbBase>> \o mpn_mul_1(Tail(mag), u, t \div LimbBase)

RECURSIVE mpn_divrem_1(_, _, _)
\* quotient (leading zero limbs kept) and remainder of
\* (rem * LimbBase^Len(mag) + mag) by u
mpn_divrem_1(mag, u, rem) ==
    IF mag = << >> THEN [q |-> << >>, r |-> rem]
    ELSE LET cur == rem * LimbBase + mag[Len(mag)]
             rest == mpn_divrem_1(SubSeq(mag, 1, Len(mag) - 1), u, cur % u)
         IN  [q |-> Append(rest.q, cur \div u), r |-> rest.r]

RECURSIVE mpn_normalize(_)
mpn_normalize(mag) ==
    IF mag = << >> \/ mag[Len(mag)] # 0 THEN mag
    ELSE mpn_normalize(SubSeq(mag, 1, Len(mag) - 1))

\* mpz_set_ui(rop, x)
mpz_set_ui(x) == [neg |-> FALSE, mag |-> mpn_set_ui(x)]

\* mpz_tdiv_q_ui(q, n, d): the quotient truncated towards zero, and the
\* remainder the call returns
mpz_tdiv_q_ui(t, u) ==
    LET dr == mpn_divrem_1(t.mag, u, 0)
        q == mpn_normalize(dr.q)
    IN  [q |-> [neg |-> t.neg /\ q # << >>, mag |-> q], r |-> dr.r]

\* mpz_neg(rop, op)
mpz_neg(t) == [neg |-> ~t.neg /\ t.mag # << >>, mag |-> t.mag]

\* mpz_mul_ui(rop, op1, op2)
mpz_mul_ui(t, u) ==
    [neg |-> t.neg /\ u # 0,
     mag |-> IF u = 0 THEN << >> ELSE mpn_mul_1(t.mag, u, 0)]

\* one pass of the inner loop body without the mpz_neg
LagrangeStep_NoNeg(t, i, j) ==
    LET v == j - i
        d == mpz_tdiv_q_ui(t, IF v < 0 THEN v * (-1) ELSE v)
    IN  [t1 |-> mpz_mul_ui(d.q, j + 1), r |-> d.r]

\* one pass of the inner loop body for a present j # i: t1 afterwards and
\* the remainder of the division
LagrangeStep(t, i, j) ==
    LET v == j - i
        d == mpz_tdiv_q_ui(t, IF v < 0 THEN v * (-1) ELSE v)
        a == IF v < 0 THEN mpz_neg(d.q) ELSE d.q
    IN  [t1 |-> mpz_mul_ui(a, j + 1), r |-> d.r]

NoLagrange == [st |-> "none", l |-> 0, S |-> {}, i |-> 0, j |-> 0,
               t1 |-> mpz_set_ui(0), exact |-> TRUE]

InitLg == lg = NoLagrange

\* the outer loop reaches a present share i: mpz_set(t1, pk->delta), with
\* delta = l! from pcs_t_generate_key_pair; S is the set of indices whose
\* share is not zero
LgSetDelta ==
    /\ lg.st = "none"
    /\ \E l \in 1..MaxLagrange :
       \E S \in SUBSET (0..(l - 1)) :
       \E i \in S :
          lg' = [st |-> "loop", l |-> l, S |-> S, i |-> i, j |-> 0,
                 t1 |-> mpz_set_ui(mpz_fac_ui(l)), exact |-> TRUE]
    /\ UNCHANGED nonLg

\* one pass of the inner loop, or its end
LgInnerLoop ==
    /\ lg.st = "loop"
    /\ IF lg.j >= lg.l THEN lg' = [lg EXCEPT !.st = "done"]
       ELSE IF lg.j = lg.i \/ lg.j \notin lg.S
            THEN lg' = [lg EXCEPT !.j = @ + 1]
       ELSE LET s == LagrangeStep(lg.t1, lg.i, lg.j)
            IN  lg' = [lg EXCEPT !.j = @ + 1, !.t1 = s.t1,
                                 !.exact = @ /\ s.r = 0]
    /\ UNCHANGED nonLg

NextLg == LgSetDelta \/ LgInnerLoop

(***************************************************************************)
(* Export and import of a Paillier private key                             *)
(***************************************************************************)
RECURSIVE mpz_get_str(_, _)
\* mpz_get_str(buffer, base, op) for op >= 0: the digits, most significant
\* first
mpz_get_str(base, op) ==
    IF op < base THEN <<op>>
    ELSE Append(mpz_get_str(base, op \div base), op % base)

RECURSIVE mpz_set_str(_, _)
\* mpz_set_str(rop, str, base) on a string of digits
mpz_set_str(str, base) ==
    IF str = << >> THEN 0
    ELSE mpz_set_str(SubSeq(str, 1, Len(str) - 1), base) * base
            + str[Len(str)]

\* pcs_export_private_key(vk, file): the strings packed, in order; ret is
\* -1 and nothing is written when tpl_dump fails
pcs_export_private_key(k, dumpOk) ==
    LET packed == <<mpz_get_str(HCS_BASE, k.lambda),
                    mpz_get_str(HCS_BASE, k.mu),
                    mpz_get_str(HCS_BASE, k.n)>>
    IN  IF dumpOk THEN [ret |-> 0, file |-> packed]
        ELSE [ret |-> -1, file |-> << >>]

\* pcs_import_private_key(vk, file) into the key k; a tpl_unpack that finds
\* no string returns 0 with the fields set so far
pcs_import_private_key(k, file) ==
    IF Len(file) < 1 THEN [ret |-> 0, vk |-> k]
    ELSE LET k1 == [k EXCEPT !.lambda = mpz_set_str(file[1], HCS_BASE)]
         IN  IF Len(file) < 2 THEN [ret |-> 0, vk |-> k1]
             ELSE LET k2 == [k1 EXCEPT !.mu = mpz_set_str(file[2], HCS_BASE)]
                  IN  IF Len(file) < 3 THEN [ret |-> 0, vk |-> k2]
                      ELSE LET n == mpz_set_str(file[3], HCS_BASE)
                           IN  [ret |-> 1,
                                vk |-> [k2 EXCEPT !.n = n,
                                                  !.n2 = mpz_pow_ui(n, 2)]]

\* a call of pcs_decrypt(vk, rop, cipher1): its first mpz_powm has the
\* modulus vk->p2, and GMP stops the process on a zero modulus
pcs_decrypt_call(k, cipher1) ==
    IF k.p2 = 0 THEN [st |-> "divide by zero", rop |-> 0]
    ELSE [st |-> "returned", rop |-> pcs_decrypt(k, cipher1)]

NoExport == [st |-> "none", vk |-> NoPrivateKey, file |-> << >>,
             ivk |-> NoPrivateKey, ret |-> 0, cipher1 |-> 0,
             out |-> [st |-> "none", rop |-> 0],
             iout |-> [st |-> "none", rop |-> 0]]

InitXp == xp = NoExport

\* pcs_generate_key_pair(pk, vk, bits)
XpGenerateKeyPair ==
    /\ xp.st = "none"
    /\ \E k \in PcsKeyPairs : xp' = [xp EXCEPT !.st = "keys", !.vk = k.vk]
    /\ UNCHANGED nonXp

\* pcs_export_private_key(vk, file)
XpExportPrivateKey ==
    /\ xp.st = "keys"
    /\ \E dumpOk \in BOOLEAN :
          LET r == pcs_export_private_key(xp.vk, dumpOk)
          IN  xp' = [xp EXCEPT !.st = "exported", !.ret = r.ret,
                               !.file = r.file]
    /\ UNCHANGED nonXp

\* pcs_init_private_key(); pcs_import_private_key(vk, file)
XpImportPrivateKey ==
    /\ xp.st = "exported"
    /\ LET r == pcs_import_private_key(NoPrivateKey, xp.file)
       IN  xp' = [xp EXCEPT !.st = IF r.ret = 1 THEN "imported" ELSE "failed",
                            !.ret = r.ret, !.ivk = r.vk]
    /\ UNCHANGED nonXp

\* pcs_decrypt(vk, rop, cipher1) with the original key and with the
\* imported key, on an encryption under the original modulus
XpDecrypt ==
    /\ xp.st = "imported"
    /\ \E m \in PlainSamples(xp.vk.n), u \in MultGroupSamples(xp.vk.n) :
          LET c == pcs_encrypt([n |-> xp.vk.n, g |-> xp.vk.n + 1,
                                n2 |-> xp.vk.n2], m, u)
          IN  xp' = [xp EXCEPT !.st = "done", !.cipher1 = c,
                               !.out = pcs_decrypt_call(xp.vk, c),
                               !.iout = pcs_decrypt_call(xp.ivk, c)]
    /\ UNCHANGED nonXp

NextXp ==
    XpGenerateKeyPair \/ XpExportPrivateKey \/ XpImportPrivateKey \/ XpDecrypt

(***************************************************************************)
(* Specifications                                                          *)
(***************************************************************************)
Init == InitPcs /\ InitT /\ InitCrt /\ InitP /\ InitDj /\ InitEg /\ InitVf /\ InitHeap /\ InitTh /\ InitAl /\ InitRp /\ InitKg /\ InitEnt /\ InitLc /\ InitLg /\ InitXp

\* encrypt, reencrypt, decrypt
NextRound == GenerateKeyPair \/ EncryptFirst \/ Reencrypt \/ Decrypt
SpecRound == Init /\ [][NextRound]_vars

\* fold up to MaxOps encryptions with pcs_ee_add
NextFold == GenerateKeyPair \/ Encrypt \/ EeAdd \/ Decrypt
SpecFold == Init /\ [][NextFold]_vars

\* in-place pcs_ep_add / pcs_ep_mul on one ciphertext
NextScalar == GenerateKeyPair \/ EncryptFirst \/ EpAdd \/ EpMul \/ Decrypt
SpecScalar == Init /\ [][NextScalar]_vars

\* a threshold decryption session
SpecT == Init /\ [][NextT]_vars

\* direct calls of mpz_2crt
SpecCrt == Init /\ [][NextCrt]_vars

\* an ns proof of an encryption of 0, possibly altered on its way
NextNs ==
    \/ ProofKeyPair \/ ProofEncryptZero \/ ComputeNs \/ TamperA2 \/ TamperZ2
    \/ VerifyNs
SpecNs == Init /\ [][NextNs]_vars

\* a 1-of-2 proof for the plaintexts 0 and 1, possibly altered on its way
NextOneOfTwo ==
    \/ ProofKeyPair \/ ProofEncryptZero \/ ComputeOneOfTwo \/ TamperA1
    \/ VerifyOneOfTwo
SpecOneOfTwo == Init /\ [][NextOneOfTwo]_vars

\* a Damgard-Jurik round trip
SpecDj == Init /\ [][NextDj]_vars

\* an ElGamal product of two encryptions
SpecEg == Init /\ [][NextEg]_vars

\* verification of generated Paillier keys
SpecVf == Init /\ [][NextVf]_vars

\* allocation and destruction of one secret-bearing object
SpecHeap == Init /\ [][NextHeap]_vars

\* two encrypt calls interleaved statement by statement on one shared key
SpecTh == Init /\ [][NextTh]_vars

\* one call with rop apart from or the same as an input
SpecAl == Init /\ [][NextAl]_vars

\* one call of mpz_random_prime
SpecRp == Init /\ [][NextRp]_vars

\* key generation by requested size, then verification of the fresh pair
SpecKg == Init /\ [][NextKg]_vars

\* one operation that seeds a generator, with the entropy device working or not
SpecEnt == Init /\ [][NextEnt]_vars

\* one threshold private key from pcs_t_init_private_key through generate,
\* clear and free calls
SpecLc == Init /\ [][NextLc]_vars

\* one Lagrange coefficient of pcs_t_share_combine, for every l up to
\* MaxLagrange, every set of present shares and every share of the set
SpecLg == Init /\ [][NextLg]_vars

\* a private key exported, imported into a fresh key, and a ciphertext
\* decrypted with both
SpecXp == Init /\ [][NextXp]_vars

(***************************************************************************)
(* Properties of the Paillier operations                                   *)
(***************************************************************************)

\* C1: decrypting a fresh encryption of m (0 <= m < n, any accepted random
\* u) returns exactly m.
C1_DecryptEncrypt ==
    (rop.set /\ rop.hist = {"enc"}) => rop.val = rop.pt

C1_Witness ==
    /\ rop.set /\ rop.hist = {"enc"}
    /\ rop.pt = pk.n - 1 /\ rop.val = pk.n - 1

\* C4: a ciphertext folded from encryptions with pcs_ee_add, in any order
\* and grouping, decrypts to the sum of the plaintexts modulo n, hence to
\* the plain sum when that is below n.
C4_FoldSum ==
    (rop.set /\ "ee_add" \in rop.hist) =>
        /\ rop.val = rop.pt % pk.n
        /\ (rop.pt < pk.n => rop.val = rop.pt)

\* three encryptions of n-1 folded: the sum wraps twice
C4_Witness ==
    /\ rop.set /\ "ee_add" \in rop.hist
    /\ rop.pt = 3 * (pk.n - 1) /\ rop.val = pk.n - 3

\* C5: after any sequence of in-place pcs_ep_add calls on an encryption of
\* m1, decryption returns (m1 + sum k_i) mod n: the plain total when it is
\* in [0, n), and n - |t| when the total t is negative.
C5_EpAddTotal ==
    (rop.set /\ rop.hist \subseteq {"enc", "ep_add"}) =>
        /\ rop.val = rop.pt % pk.n
        /\ ((0 <= rop.pt /\ rop.pt < pk.n) => rop.val = rop.pt)
        /\ ((rop.pt < 0 /\ -rop.pt < pk.n) => rop.val = pk.n - Abs(rop.pt))

C5_Witness ==
    /\ rop.set /\ rop.hist = {"enc", "ep_add"}
    /\ rop.pt < -MaxAdd /\ rop.val = pk.n + rop.pt

\* C6: decrypting pcs_ep_mul(encrypt(m1), k), k in Z_n, returns m1 * k mod
\* n, so repeated scaling tracks the integer product while it is below n.
C6_EpMulProduct ==
    (rop.set /\ rop.hist \subseteq {"enc", "ep_mul"}) =>
        /\ rop.val = rop.pt % pk.n
        /\ (rop.pt < pk.n => rop.val = rop.pt)

C6_Witness ==
    /\ rop.set /\ rop.hist = {"enc", "ep_mul"}
    /\ rop.pt = (pk.n - 1) * (pk.n - 1) /\ rop.val = 1

\* C7 (as claimed): a reencrypted ciphertext decrypts to the plaintext of
\* the original, for every value pcs_reencrypt can draw.
C7_ReencryptKeepsPlaintext ==
    (rop.set /\ "re" \in rop.hist) => rop.val = rop.pt

(***************************************************************************)
(* Properties of the threshold scheme                                      *)
(***************************************************************************)

C3_QuorumNotMet ==
    (res.set /\ Cardinality(res.S) < tpk.w) => res.ret = 0

C9_QuorumRange ==
    tst = "keys" => (1 <= call.w /\ call.w <= call.l)

(***************************************************************************)
(* Properties of mpz_2crt                                                  *)
(***************************************************************************)

\* C10: mpz_2crt with coprime moduli and rop distinct from its inputs sets
\* rop to the one x in [0, m1*m2) with x mod m1 = a1 mod m1 and x mod m2 =
\* a2 mod m2.
C10_Crt2 ==
    (crt.st = "done" /\ mpz_gcd(crt.m1, crt.m2) = 1) =>
        \A x \in 0..(crt.m1 * crt.m2 - 1) :
            (x % crt.m1 = crt.a1 % crt.m1 /\ x % crt.m2 = crt.a2 % crt.m2)
                <=> x = crt.rop

\* a negative residue and one above its modulus: x = 4 mod 5, x = 0 mod 6
C10_Witness ==
    /\ crt.st = "done" /\ crt.m1 = 5 /\ crt.m2 = 6
    /\ crt.a1 = -1 /\ crt.a2 = 12 /\ crt.rop = 24

(***************************************************************************)
(* Error handling of mpz_2crt under key generation                         *)
(***************************************************************************)

\* C11 (as claimed): when the CRT moduli n and p'*q' of threshold key
\* generation share a factor, the call reports an error to its caller: the
\* process is never ended by it.
C11_InvalidModulusReported ==
    tst # "abort"

(***************************************************************************)
(* Properties of the proofs                                                *)
(***************************************************************************)

\* C12: for u = v^n mod n^2 with v a unit modulo n, the proof written by
\* pcs_t_compute_ns_protocol is accepted by pcs_t_verify_ns_protocol,
\* whatever unit r the prover drew.
C12_NsAccepted ==
    (ns.st = "verified" /\ ns.kind = "ns" /\ ns.tamper = "no") => ns.ret = 1

C12_Witness ==
    /\ ns.st = "verified" /\ ns.kind = "ns" /\ ns.tamper = "no"
    /\ tpk.n = 77 /\ ns.v = 2 /\ ns.r = <<tpk.n - 1>> /\ ns.ret = 1

\* C13 (as claimed): with m1 = 0, m2 = 1 and c1 an encryption of 0 (k = 0),
\* the proof written by pcs_t_compute_1of2_ns_protocol is accepted by
\* pcs_t_verify_1of2_ns_protocol for every prover randomness, and rejected
\* once a1 is replaced by another residue.
C13_OneOfTwoAccepted ==
    (ns.st = "verified" /\ ns.kind = "1of2") =>
        /\ (ns.tamper = "no" => ns.ret = 1)
        /\ (ns.tamper = "a1" => ns.ret = 0)

\* C14: pcs_t_verify_ns_protocol returns 1 only if u2, a2, z2 are coprime
\* to n and z2^n = u2^e * a2 modulo n^2; an accepted proof whose a2 was
\* replaced by another residue, or whose z2 by a value not congruent to it
\* modulo n, is rejected.
C14_NsSound ==
    (ns.st = "verified" /\ ns.kind = "ns") =>
        /\ ns.ret = 1 =>
              /\ mpz_gcd(ns.pf.u2, tpk.n) = 1
              /\ mpz_gcd(ns.pf.a2, tpk.n) = 1
              /\ mpz_gcd(ns.pf.z2, tpk.n) = 1
              /\ PowModNat(ns.pf.z2, tpk.n, tpk.n2)
                    = MulMod(mpz_powm_wide(ns.pf.u2, NsChallenge, tpk.n2),
                             ns.pf.a2, tpk.n2)
        /\ ns.tamper # "no" => ns.ret = 0

\* a replaced z2 that passes the gcd tests and fails the equation
C14_Witness ==
    /\ ns.st = "verified" /\ ns.kind = "ns" /\ ns.tamper = "z2"
    /\ mpz_gcd(ns.pf.z2, tpk.n) = 1 /\ ns.v = 2 /\ ns.ret = 0

(***************************************************************************)
(* Properties of the other cryptosystems                                   *)
(***************************************************************************)

\* C15 (as claimed): for s in {1, 2}, every key pair djcs_generate_key_pair
\* made from primes p # q, every m in [0, n^s) and every unit u,
\* djcs_decrypt(djcs_encrypt(m)) = m.
C15_DjRoundTrip ==
    (dj.st = "dec" /\ dj.p # dj.q) => dj.rop = dj.m

\* C16 (as claimed): for a, b in [1, q-1], decrypting the egcs_ee_mul of
\* encryptions of a and b returns a * b mod q.
C16_EgProduct ==
    eg.st = "dec" => eg.rop = (eg.a * eg.b) % eg.pk.q

(***************************************************************************)
(* Properties of key verification                                          *)
(***************************************************************************)

\* C17 (as claimed): pcs_verify_key_pair returns non-zero only if both
\* pcs_verify_public_key and pcs_verify_private_key succeed and pk.n = vk.n.
C17_PairMatches ==
    (vf.st = "verified" /\ vf.fn = "pair" /\ vf.ret # 0) =>
        /\ pcs_verify_public_key(vf.pk) # 0
        /\ \E undef \in {0, 1} : pcs_verify_private_key(vf.vk, undef) # 0
        /\ vf.pk.n = vf.vk.n

(***************************************************************************)
(* Properties of destruction                                               *)
(***************************************************************************)

\* C18: when a free_* call releases the storage of an object, every
\* big-integer attribute of the object holds zeros (the share si, the
\* dealer's d and nm, the polynomial coefficients, every n[0..s])
C18_FreeZeroes ==
    heap.st = "released" => \A x \in heap.limbs : x.val = 0

(***************************************************************************)
(* Properties of keys shared between threads                               *)
(***************************************************************************)

\* C19: while two encrypt calls run at once on one public key, each with
\* its own random source, the key always equals its generated value and
\* each finished call has produced the ciphertext it produces running alone
C19_KeysReadOnly ==
    /\ th.pk = th.gen
    /\ \A i \in Threads : th.t[i].pc = "done" => th.t[i].rop = AloneRop(i)

(***************************************************************************)
(* Properties of calls whose output is one of the inputs                   *)
(***************************************************************************)

\* C20: each of pcs_encrypt, pcs_decrypt, pcs_ep_add, pcs_ee_add,
\* pcs_ep_mul, pcs_t_encrypt, pcs_t_encrypt_r and pcs_t_r_encrypt, called
\* with rop being one of its big-integer inputs, stores in rop the value it
\* stores in a separate rop for equal inputs and randomness
C20_RopMayAlias == al.st = "done" => al.out = al.ref

(***************************************************************************)
(* Properties of prime and key generation                                  *)
(***************************************************************************)

\* C21: mpz_random_prime(rop, rstate, bits) returns a prime of at least
\* bits binary digits (rop >= 2^(bits-1)), whatever the generator draws
C21_RandomPrime ==
    rp.st = "done" =>
        IsPrime(rp.rop) /\ rp.rop >= mpz_pow_ui(2, rp.bits - 1)

\* a call whose prime has more than bits + 1 binary digits
C21_Witness ==
    /\ rp.st = "done" /\ rp.bits = 3 /\ rp.draw = 7
    /\ rp.rop = 17 /\ rp.rop >= mpz_pow_ui(2, rp.bits + 1)

\* C22: key generation asked for a modulus of fewer than 32 bits fails and
\* leaves no populated key pair
C22_InvalidKeySize == kg.bits < 32 => kg.st # "keys"

\* C24: the modulus n = p*q that pcs_generate_key_pair leaves has exactly
\* the requested number of binary digits
C24_ModulusBits ==
    (kg.st = "keys" /\ kg.fn = "pcs") => mpz_sizeinbase2(kg.pk.n) = kg.bits

C23_EntropyFailureReported ==
    (ent.st = "done" /\ ent.dev # "ok") =>
        ent.ret \in {"HCS_EOPEN", "HCS_EREAD"} /\ ~ent.went

(***************************************************************************)
(* Properties of the life of a threshold private key                       *)
(***************************************************************************)

\* the sequences init, generate, clear, (generate | free) and their
\* beginnings
ClearThenGenerateOrFree ==
    \E tail \in {"generate", "free"} :
    \E len \in 1..4 :
        lc.calls = SubSeq(<<"init", "generate", "clear", tail>>, 1, len)

\* C25: over init, generate, clear, (generate | free),
\* pcs_t_clear_private_key releases no memory, nothing is released twice
\* or used after its release, and once the key is freed every vi array
\* and every vi element has been released exactly once
C25_ClearKeepsKeyUsable ==
    ClearThenGenerateOrFree =>
        /\ ~lc.uar
        /\ lc.st # "abort"
        /\ \A a \in 1..Len(lc.arrs) :
              /\ lc.arrs[a].rel <= 1
              /\ \A i \in 1..lc.arrs[a].l : lc.arrs[a].elems[i] <= 1
        /\ (Len(lc.calls) = 3) =>
              \A a \in 1..Len(lc.arrs) : lc.arrs[a].rel = 0
        /\ (lc.st = "freed") =>
              \A a \in 1..Len(lc.arrs) :
                  /\ lc.arrs[a].rel = 1
                  /\ \A i \in 1..lc.arrs[a].l : lc.arrs[a].elems[i] = 1

(***************************************************************************)
(* Properties of the Lagrange coefficients                                 *)
(***************************************************************************)

RECURSIVE TimesNumerators(_, _)
\* mag times (j + 1) for the j >= from of S other than i
TimesNumerators(mag, from) ==
    IF from >= lg.l THEN mag
    ELSE IF from = lg.i \/ from \notin lg.S
         THEN TimesNumerators(mag, from + 1)
    ELSE TimesNumerators(mpn_mul_1(mag, from + 1, 0), from + 1)

RECURSIVE TimesDenominators(_, _)
\* mag times |j - i| for the j >= from of S other than i
TimesDenominators(mag, from) ==
    IF from >= lg.l THEN mag
    ELSE IF from = lg.i \/ from \notin lg.S
         THEN TimesDenominators(mag, from + 1)
    ELSE TimesDenominators(mpn_mul_1(mag, Abs(from - lg.i), 0), from + 1)

\* C27: every truncating division of the running coefficient by |j - i|
\* leaves no remainder, and the finished coefficient is
\* delta * prod (j + 1) / (j - i) over the j of S other than i, sign
\* included
C27_LagrangeExact ==
    /\ lg.exact
    /\ lg.st = "done" =>
          /\ TimesDenominators(lg.t1.mag, 0)
                = TimesNumerators(mpn_set_ui(mpz_fac_ui(lg.l)), 0)
          /\ lg.t1.neg = (Cardinality({j \in lg.S : j < lg.i}) % 2 = 1)

\* l = 10, shares 2, 3, 4 (i), 5, .., 9 present: the coefficient
\* 1512 * 10! does not fit 32 bits and is negative twice over
C27_Witness ==
    /\ lg.st = "done"
    /\ lg.l = 10
    /\ lg.i = 4
    /\ lg.S = {2, 3, 4, 5, 6, 7, 8, 9}
    /\ Len(lg.t1.mag) = 3
    /\ ~lg.t1.neg

(***************************************************************************)
(* Properties of the proof computation's inputs                            *)
(***************************************************************************)

\* C29: after pcs_t_compute_ns_protocol the caller's u has not been
\* released (and so can still be read or passed on)
C29_InputsStayValid ==
    (ns.kind = "ns" /\ ns.st \in {"proved", "verified"}) => ns.ulive

(***************************************************************************)
(* Properties of export and import                                         *)
(***************************************************************************)

\* C30: after pcs_export_private_key and pcs_import_private_key into a
\* fresh key, pcs_decrypt with the imported key returns the plaintext
\* pcs_decrypt with the original key returns
C30_ImportedKeyDecrypts ==
    xp.st = "done" =>
        /\ xp.iout.st = "returned"
        /\ xp.iout.rop = xp.out.rop

(***************************************************************************)
(* Properties of the failure of pcs_t_share_combine                        *)
(***************************************************************************)

\* C28: on shares that are partial decryptions of a ciphertext coprime to
\* n, pcs_t_share_combine returns 0 exactly when a prime factor of n is at
\* most l, which is exactly when 4 * delta^2 has no inverse modulo n, and
\* no inversion modulo n^2 inside the loop fails
C28_CombineFailsOnSmallFactor ==
    res.set =>
        /\ res.loop
        /\ (res.ret = 0) <=>
              (\E f \in 2..tpk.l : IsPrime(f) /\ tpk.n % f = 0)
        /\ (res.ret = 0) <=>
              ~mpz_invert(mpz_pow_ui(tpk.delta, 2) * 4, tpk.n).ok

\* n = 35 with l = 5: the shares of servers 1, 2, 3 go through the
\* inversions modulo n^2 of the loop, and the call returns 0
C28_Witness ==
    /\ res.set /\ res.loop /\ res.ret = 0
    /\ tpk.n = 35 /\ tpk.l = 5
    /\ res.S = {0, 1, 2}

====
